---- MODULE Spec2Model ----
(***************************************************************************)
(* LiDAR Scanner add-on: the scan operators (operators.py), the single     *)
(* sweep they call (scanner_core.py) and the point-cloud export pass       *)
(* (export_utils.py), as one state machine.                                *)
(*                                                                         *)
(* One behaviour is one invocation of one entry point: LIDAR_OT_scan,      *)
(* LIDAR_OT_scan_animation, or PointCloudExporter.export.  Calls into the  *)
(* host (scene.frame_set, scene.ray_cast, os.makedirs, open/write) may     *)
(* raise; an exception nobody catches ends the invocation.                 *)
(***************************************************************************)
EXTENDS Integers, Sequences, FiniteSets, TLC

\* ------------------------------------------------------------------ bounds
MaxFrame == 5        \* frame_start, frame_end range over 1..MaxFrame
MaxStep == 2         \* frame_step ranges over 1..MaxStep
MaxVisits == 3       \* longest frame range swept (number of frames in it)
NumRays == 1         \* rays of one sweep (size of the direction set)
MaxLen == 2          \* longest point list handed directly to the exporter
MaxFaults == 1       \* host calls that may raise during one invocation

NoFrame == -1        \* frame=None of export_all_formats / get_export_filepath

Formats == <<"ply", "csv", "las", "pcd">>
FormatSet == {"ply", "csv", "las", "pcd"}

VARIABLES
    op,               \* entry point invoked: "scan", "animation", "export"
    pc,               \* position inside the entry point
    ret,              \* operator result: "NONE", "FINISHED", "CANCELLED", "EXCEPTION"
    reports,          \* levels passed to self.report, in order
    settings,         \* context.scene.lidar_scanner
    laspy_installed,  \* whether `import laspy` succeeds
    frame_current,    \* context.scene.frame_current
    entry_frame,      \* frame_current when the operator was invoked
    original_frame,   \* local of LIDAR_OT_scan_animation.execute
    frame,            \* loop variable of the animation sweep (next frame of the range)
    points,           \* scanner.points / local `points`
    all_points,       \* local `all_points`
    visited,          \* frames passed to frame_set inside the loop, in order
    failed_frames,    \* frames whose frame_set raised
    scanned,          \* frames at which scanner.scan() was called, in order
    frame_points,     \* what each sweep returned, in order
    rays,             \* number of scene.ray_cast calls so far
    meshes,           \* number of point-cloud meshes created
    exp,              \* the running export_all_formats call
    exports,          \* finished / aborted export_all_formats calls, in order
    files,            \* the file system: path -> content
    las_cause,        \* why the last export_las call returned what it did
    faults,           \* host calls that raised so far
    directions,       \* what generate_ray_directions returned
    casts,            \* the scene.ray_cast results of the sweep, in ray order
    config_log,       \* the last configuration operation applied, numbered
    sweep             \* the sweep in progress: its number, its settings at start

vars == <<op, pc, ret, reports, settings, laspy_installed, frame_current,
          entry_frame, original_frame, frame, points, all_points, visited,
          failed_frames, scanned, frame_points, rays, meshes, exp, exports,
          files, las_cause, faults, directions, casts, config_log, sweep>>

\* What the operators and the exporter never touch
sensing == <<directions, casts, config_log, sweep>>

\* ---------------------------------------------------------- small helpers
\* No sweep was started yet
NoSweep ==
    [n |-> 0, pose |-> 0, generated |-> 0, edits |-> 0,
     settings |-> [none |-> TRUE]]

Put(f, k, v) == (k :> v) @@ f

EmptyMap == [k \in {} |-> TRUE]

RECURSIVE Digits(_)
Digits(n) == IF n < 10 THEN <<n>> ELSE Append(Digits(n \div 10), n % 10)

\* f"{frame:04d}": decimal digits, zero-padded on the left to width 4
Pad4(n) ==
    LET d == Digits(n)
    IN  IF Len(d) >= 4 THEN d ELSE [i \in 1..(4 - Len(d)) |-> 0] \o d

\* ------------------------------------------------------ host call outcomes
\* What one encoder call meets: no error, open() raising, or the write
\* number `at` raising (write 0 is the header, write k the k-th record).
NoFault == [kind |-> "none", at |-> 0]
OpenFault == [kind |-> "open", at |-> 0]
WriteFault(k) == [kind |-> "write", at |-> k]

EncoderFaults(pts) ==
    {NoFault} \cup
    (IF faults < MaxFaults
     THEN {OpenFault} \cup {WriteFault(k) : k \in 0..Len(pts)}
     ELSE {})

\* Outcomes of any other host call that may raise (frame_set, scan, makedirs)
CallOutcomes == {"ok"} \cup (IF faults < MaxFaults THEN {"raise"} ELSE {})

Charge(outcome) == faults' = IF outcome = "ok" THEN faults ELSE faults + 1

ChargeEncoder(fault) == faults' = IF fault = NoFault THEN faults ELSE faults + 1

\* ----------------------------------------------------------- export_utils
\* get_export_filepath: <export_path>/<export_filename>[_<frame:04d>].<ext>
get_export_filepath(extension, fr) ==
    [ext |-> extension,
     suffix |-> IF fr = NoFrame THEN <<>> ELSE Pad4(fr)]

\* Header each encoder writes before the records
HeaderOf(fmt, pts) ==
    CASE fmt = "ply" -> <<[key |-> "element vertex", count |-> Len(pts)]>>
      [] fmt = "pcd" -> <<[key |-> "WIDTH", count |-> Len(pts)],
                          [key |-> "POINTS", count |-> Len(pts)]>>
      [] fmt = "las" -> <<[key |-> "point_count", count |-> Len(pts)]>>
      [] OTHER       -> <<[key |-> "columns", count |-> 0]>>

\* with open(filepath, 'w') as f: header, then one write per point; an
\* exception leaves what was written so far and the encoder returns False.
WriteFile(fmt, pts, filepath, fs, fault) ==
    CASE fault.kind = "open" ->
            [ok |-> FALSE, files |-> fs]
      [] fault.kind = "write" /\ fault.at = 0 ->
            [ok |-> FALSE,
             files |-> Put(fs, filepath, [header |-> <<>>, records |-> <<>>])]
      [] fault.kind = "write" /\ fault.at > 0 ->
            [ok |-> FALSE,
             files |-> Put(fs, filepath,
                           [header |-> HeaderOf(fmt, pts),
                            records |-> SubSeq(pts, 1, fault.at - 1)])]
      [] OTHER ->
            [ok |-> TRUE,
             files |-> Put(fs, filepath,
                           [header |-> HeaderOf(fmt, pts), records |-> pts])]

export_ply(pts, filepath, fs, fault) == WriteFile("ply", pts, filepath, fs, fault)

export_csv(pts, filepath, fs, fault) == WriteFile("csv", pts, filepath, fs, fault)

export_pcd(pts, filepath, fs, fault) == WriteFile("pcd", pts, filepath, fs, fault)

\* export_las: ImportError and any other exception both return False
export_las(pts, filepath, fs, installed, fault) ==
    IF ~installed
    THEN [ok |-> FALSE, files |-> fs, cause |-> "unavailable"]
    ELSE LET w == WriteFile("las", pts, filepath, fs, fault)
         IN  [ok |-> w.ok, files |-> w.files,
              cause |-> IF w.ok THEN "written" ELSE "write_failed"]

Encode(fmt, pts, filepath, fs, fault) ==
    CASE fmt = "ply" -> export_ply(pts, filepath, fs, fault)
      [] fmt = "csv" -> export_csv(pts, filepath, fs, fault)
      [] fmt = "pcd" -> export_pcd(pts, filepath, fs, fault)
      [] OTHER ->
            LET r == export_las(pts, filepath, fs, laspy_installed, fault)
            IN  [ok |-> r.ok, files |-> r.files]

Enabled(fmt) ==
    CASE fmt = "ply" -> settings.export_ply
      [] fmt = "csv" -> settings.export_csv
      [] fmt = "las" -> settings.export_las
      [] OTHER       -> settings.export_pcd

IdleExport ==
    [points |-> <<>>, frame |-> NoFrame, results |-> EmptyMap, idx |-> 0,
     back |-> "none"]

\* The call export_all_formats(pts, settings, fr); `back` is where the caller
\* continues when it returns.
CallExport(pts, fr, back) ==
    /\ exp' = [points |-> pts, frame |-> fr, results |-> EmptyMap, idx |-> 1,
               back |-> back]
    /\ pc' = "export"

ExportRecord(e, raised) ==
    [frame |-> e.frame, points |-> e.points, results |-> e.results,
     raised |-> raised]

\* An exception no caller catches: it leaves export_all_formats and the
\* operator that called it.
Uncaught ==
    /\ pc' = "done"
    /\ ret' = "EXCEPTION"

\* One `if settings.export_<fmt>:` block of export_all_formats
ExportBlock(fmt) ==
    /\ UNCHANGED sensing
    /\ UNCHANGED <<op, reports, settings, laspy_installed, frame_current,
                   entry_frame, original_frame, frame, points, all_points,
                   visited, failed_frames, scanned, frame_points, rays, meshes>>
    /\ IF ~Enabled(fmt)
       THEN /\ exp' = [exp EXCEPT !.idx = @ + 1]
            /\ UNCHANGED <<pc, ret, exports, files, las_cause, faults>>
       ELSE \E mk \in CallOutcomes :
              IF mk = "raise"
              THEN \* os.makedirs raises inside get_export_filepath
                   /\ Uncaught
                   /\ Charge(mk)
                   /\ exports' = Append(exports, ExportRecord(exp, TRUE))
                   /\ exp' = IdleExport
                   /\ UNCHANGED <<files, las_cause>>
              ELSE \E fault \in EncoderFaults(exp.points) :
                     LET filepath == get_export_filepath(fmt, exp.frame)
                         r == Encode(fmt, exp.points, filepath, files, fault)
                     IN  /\ files' = r.files
                         /\ exp' = [exp EXCEPT !.idx = @ + 1,
                                               !.results = Put(@, fmt, r.ok)]
                         /\ las_cause' =
                              IF fmt = "las"
                              THEN export_las(exp.points, filepath, files,
                                              laspy_installed, fault).cause
                              ELSE las_cause
                         /\ ChargeEncoder(IF fmt = "las" /\ ~laspy_installed
                                          THEN NoFault ELSE fault)
                         /\ UNCHANGED <<pc, ret, exports>>

ExportPly ==
    /\ pc = "export"
    /\ exp.idx = 1
    /\ ExportBlock("ply")

ExportCsv ==
    /\ pc = "export"
    /\ exp.idx = 2
    /\ ExportBlock("csv")

ExportLas ==
    /\ pc = "export"
    /\ exp.idx = 3
    /\ ExportBlock("las")

ExportPcd ==
    /\ pc = "export"
    /\ exp.idx = 4
    /\ ExportBlock("pcd")

\* `return results`
ExportReturn ==
    /\ UNCHANGED sensing
    /\ pc = "export"
    /\ exp.idx = Len(Formats) + 1
    /\ exports' = Append(exports, ExportRecord(exp, FALSE))
    /\ pc' = exp.back
    /\ exp' = [exp EXCEPT !.idx = 0]
    /\ UNCHANGED <<op, ret, reports, settings, laspy_installed, frame_current,
                   entry_frame, original_frame, frame, points, all_points,
                   visited, failed_frames, scanned, frame_points, rays, meshes,
                   files, las_cause, faults>>

\* ----------------------------------------------------------- scanner_core
\* LiDARScanner.scan at scene frame fr: one scene.ray_cast per generated
\* direction; the rays in `hits` yield a point, in ray order.
SweepPoints(fr, hits) ==
    LET all == [i \in 1..NumRays |-> <<fr, i>>]
        Hit(p) == p[2] \in hits
    IN  SelectSeq(all, Hit)

\* -------------------------------------------------- LIDAR_OT_scan_animation
\* for frame in range(frame_start, frame_end + 1, frame_step)
RangeHasNext_Exclusive(fr, frame_end) == fr < frame_end

RangeHasNext(fr, frame_end) == fr < frame_end + 1

\* if settings.export_single_frames (inside `if points:`)
FrameExportDue(single, pts) == pts # <<>> /\ single

\* if not settings.export_single_frames and all_points
FinalExportDue_Always(single, pts) == pts # <<>>

FinalExportDue(single, pts) == ~single /\ pts # <<>>

AnimCheck ==
    /\ UNCHANGED sensing
    /\ op = "animation"
    /\ pc = "start"
    /\ IF ~settings.enable_animation
       THEN /\ reports' = Append(reports, "ERROR")
            /\ ret' = "CANCELLED"
            /\ pc' = "done"
            /\ UNCHANGED <<points, all_points, frame, original_frame>>
       ELSE /\ points' = <<>>
            /\ all_points' = <<>>
            /\ frame' = settings.frame_start
            /\ original_frame' = frame_current
            /\ pc' = "loop"
            /\ UNCHANGED <<reports, ret>>
    /\ UNCHANGED <<op, settings, laspy_installed, frame_current, entry_frame,
                   visited, failed_frames, scanned, frame_points, rays, meshes,
                   exp, exports, files, las_cause, faults>>

\* context.scene.frame_set(frame)
AnimFrameSet ==
    /\ UNCHANGED sensing
    /\ op = "animation"
    /\ pc = "loop"
    /\ RangeHasNext(frame, settings.frame_end)
    /\ visited' = Append(visited, frame)
    /\ \E out \in CallOutcomes :
         /\ Charge(out)
         /\ IF out = "ok"
            THEN /\ frame_current' = frame
                 /\ pc' = "sweep"
                 /\ UNCHANGED <<ret, failed_frames>>
            ELSE /\ frame_current' = frame_current
                 /\ failed_frames' = failed_frames \cup {frame}
                 /\ Uncaught
    /\ UNCHANGED <<op, reports, settings, laspy_installed, entry_frame,
                   original_frame, frame, points, all_points, scanned,
                   frame_points, rays, meshes, exp, exports, files, las_cause>>

\* points = scanner.scan(); if points: all_points.extend(points) and, with
\* export_single_frames, export_all_formats(points, settings, frame)
AnimScan ==
    /\ UNCHANGED sensing
    /\ op = "animation"
    /\ pc = "sweep"
    /\ scanned' = Append(scanned, frame)
    /\ frame' = frame + settings.frame_step
    /\ \E out \in CallOutcomes :
         /\ Charge(out)
         /\ IF out = "raise"
            THEN /\ points' = <<>>
                 /\ Uncaught
                 /\ UNCHANGED <<all_points, frame_points, rays, exp>>
            ELSE \E hits \in SUBSET (1..NumRays) :
                   LET pts == SweepPoints(frame_current, hits)
                   IN  /\ points' = pts
                       /\ rays' = rays + NumRays
                       /\ frame_points' = Append(frame_points, pts)
                       /\ all_points' = all_points \o pts
                       /\ ret' = ret
                       /\ IF FrameExportDue(settings.export_single_frames, pts)
                          THEN CallExport(pts, frame, "loop")
                          ELSE pc' = "loop" /\ exp' = exp
    /\ UNCHANGED <<op, reports, settings, laspy_installed, frame_current,
                   entry_frame, original_frame, visited, failed_frames, meshes,
                   exports, files, las_cause>>

\* context.scene.frame_set(original_frame), after the loop
AnimRestore ==
    /\ UNCHANGED sensing
    /\ op = "animation"
    /\ pc = "loop"
    /\ ~RangeHasNext(frame, settings.frame_end)
    /\ \E out \in CallOutcomes :
         /\ Charge(out)
         /\ IF out = "ok"
            THEN /\ frame_current' = original_frame
                 /\ pc' = "mesh"
                 /\ ret' = ret
            ELSE /\ frame_current' = frame_current
                 /\ Uncaught
    /\ UNCHANGED <<op, reports, settings, laspy_installed, entry_frame,
                   original_frame, frame, points, all_points, visited,
                   failed_frames, scanned, frame_points, rays, meshes, exp,
                   exports, files, las_cause>>

\* if settings.add_mesh and all_points: create_point_cloud_mesh
AnimMesh ==
    /\ UNCHANGED sensing
    /\ op = "animation"
    /\ pc = "mesh"
    /\ IF settings.add_mesh /\ all_points # <<>>
       THEN points' = all_points /\ meshes' = meshes + 1
       ELSE UNCHANGED <<points, meshes>>
    /\ pc' = "final"
    /\ UNCHANGED <<op, ret, reports, settings, laspy_installed, frame_current,
                   entry_frame, original_frame, frame, all_points, visited,
                   failed_frames, scanned, frame_points, rays, exp, exports,
                   files, las_cause, faults>>

\* if not settings.export_single_frames and all_points: export_all_formats
AnimFinalExport ==
    /\ UNCHANGED sensing
    /\ op = "animation"
    /\ pc = "final"
    /\ IF FinalExportDue(settings.export_single_frames, all_points)
       THEN /\ points' = all_points
            /\ CallExport(all_points, NoFrame, "finish")
       ELSE /\ pc' = "finish"
            /\ UNCHANGED <<points, exp>>
    /\ UNCHANGED <<op, ret, reports, settings, laspy_installed, frame_current,
                   entry_frame, original_frame, frame, all_points, visited,
                   failed_frames, scanned, frame_points, rays, meshes, exports,
                   files, las_cause, faults>>

AnimFinish ==
    /\ UNCHANGED sensing
    /\ op = "animation"
    /\ pc = "finish"
    /\ reports' = Append(reports, "INFO")
    /\ ret' = "FINISHED"
    /\ pc' = "done"
    /\ UNCHANGED <<op, settings, laspy_installed, frame_current, entry_frame,
                   original_frame, frame, points, all_points, visited,
                   failed_frames, scanned, frame_points, rays, meshes, exp,
                   exports, files, las_cause, faults>>

\* ------------------------------------------------------------ LIDAR_OT_scan
\* if not points: report WARNING, return CANCELLED
NoPointsCancel_Never(pts) == FALSE

NoPointsCancel(pts) == pts = <<>>

AnyFormatEnabled ==
    settings.export_ply \/ settings.export_csv \/ settings.export_las
        \/ settings.export_pcd

\* report "Starting LiDAR scan...", points = scanner.scan(...), empty check
ScanSweep ==
    /\ UNCHANGED sensing
    /\ op = "scan"
    /\ pc = "start"
    /\ scanned' = Append(scanned, frame_current)
    /\ \E out \in CallOutcomes :
         /\ Charge(out)
         /\ IF out = "raise"
            THEN /\ points' = <<>>
                 /\ reports' = Append(reports, "INFO")
                 /\ Uncaught
                 /\ UNCHANGED <<frame_points, rays>>
            ELSE \E hits \in SUBSET (1..NumRays) :
                   LET pts == SweepPoints(frame_current, hits)
                   IN  /\ points' = pts
                       /\ rays' = rays + NumRays
                       /\ frame_points' = Append(frame_points, pts)
                       /\ IF NoPointsCancel(pts)
                          THEN /\ reports' = reports \o <<"INFO", "WARNING">>
                               /\ ret' = "CANCELLED"
                               /\ pc' = "done"
                          ELSE /\ reports' = Append(reports, "INFO")
                               /\ ret' = ret
                               /\ pc' = "mesh"
    /\ UNCHANGED <<op, settings, laspy_installed, frame_current, entry_frame,
                   original_frame, frame, all_points, visited, failed_frames,
                   meshes, exp, exports, files, las_cause>>

\* if settings.add_mesh: scanner.create_point_cloud_mesh("LiDAR_Scan")
ScanMesh ==
    /\ UNCHANGED sensing
    /\ op = "scan"
    /\ pc = "mesh"
    /\ meshes' = IF settings.add_mesh THEN meshes + 1 ELSE meshes
    /\ pc' = "final"
    /\ UNCHANGED <<op, ret, reports, settings, laspy_installed, frame_current,
                   entry_frame, original_frame, frame, points, all_points,
                   visited, failed_frames, scanned, frame_points, rays, exp,
                   exports, files, las_cause, faults>>

\* if any format is enabled: results = export_all_formats(points, settings)
ScanExport ==
    /\ UNCHANGED sensing
    /\ op = "scan"
    /\ pc = "final"
    /\ IF AnyFormatEnabled
       THEN CallExport(points, NoFrame, "finish")
       ELSE pc' = "finish" /\ exp' = exp
    /\ UNCHANGED <<op, ret, reports, settings, laspy_installed, frame_current,
                   entry_frame, original_frame, frame, points, all_points,
                   visited, failed_frames, scanned, frame_points, rays, meshes,
                   exports, files, las_cause, faults>>

\* report "Exported: ..." when some format succeeded, report the statistics
ScanFinish ==
    /\ UNCHANGED sensing
    /\ op = "scan"
    /\ pc = "finish"
    /\ reports' =
         IF \E f \in DOMAIN exp.results : exp.results[f]
         THEN reports \o <<"INFO", "INFO">>
         ELSE Append(reports, "INFO")
    /\ ret' = "FINISHED"
    /\ pc' = "done"
    /\ UNCHANGED <<op, settings, laspy_installed, frame_current, entry_frame,
                   original_frame, frame, points, all_points, visited,
                   failed_frames, scanned, frame_points, rays, meshes, exp,
                   exports, files, las_cause, faults>>

\* ------------------------------------------------ PointCloudExporter.export
\* return export_all_formats(points, self.settings, frame)
ExporterExport ==
    /\ UNCHANGED sensing
    /\ op = "export"
    /\ pc = "start"
    /\ CallExport(points, frame, "finish")
    /\ UNCHANGED <<op, ret, reports, settings, laspy_installed, frame_current,
                   entry_frame, original_frame, frame, points, all_points,
                   visited, failed_frames, scanned, frame_points, rays, meshes,
                   exports, files, las_cause, faults>>

ExporterReturn ==
    /\ UNCHANGED sensing
    /\ op = "export"
    /\ pc = "finish"
    /\ ret' = "RETURNED"
    /\ pc' = "done"
    /\ UNCHANGED <<op, reports, settings, laspy_installed, frame_current,
                   entry_frame, original_frame, frame, points, all_points,
                   visited, failed_frames, scanned, frame_points, rays, meshes,
                   exp, exports, files, las_cause, faults>>

\* ------------------------------------------------------------ configuration
\* LiDARScannerSettings: the fields the operators read
MakeSettings(anim, fs, fe, st, single, mesh, fmts) ==
    [enable_animation |-> anim, frame_start |-> fs, frame_end |-> fe,
     frame_step |-> st, export_single_frames |-> single, add_mesh |-> mesh,
     export_ply |-> "ply" \in fmts, export_csv |-> "csv" \in fmts,
     export_las |-> "las" \in fmts, export_pcd |-> "pcd" \in fmts]

\* Format toggles tried with the animation sweep
AnimFormatChoices == {{}, {"ply"}}

\* Scene frame the operator is invoked at
EntryFrames == {0}

\* Point lists handed to PointCloudExporter.export
PointLists == {[i \in 1..n |-> <<0, i>>] : n \in 0..MaxLen}

InitSettings ==
    CASE op = "animation" ->
            \E anim \in BOOLEAN, fs \in 1..MaxFrame, fe \in 1..MaxFrame,
               st \in 1..MaxStep, single \in BOOLEAN,
               fmts \in AnimFormatChoices :
                 /\ fs <= fe => (fe - fs) \div st < MaxVisits
                 /\ settings = MakeSettings(anim, fs, fe, st, single, TRUE, fmts)
      [] op = "scan" ->
            \E mesh \in BOOLEAN, fmts \in SUBSET FormatSet :
                 settings = MakeSettings(FALSE, 1, 250, 1, FALSE, mesh, fmts)
      [] OTHER ->
            \E fmts \in SUBSET FormatSet :
                 settings = MakeSettings(FALSE, 1, 250, 1, FALSE, TRUE, fmts)

Init ==
    /\ op \in {"scan", "animation", "export"}
    /\ pc = "start"
    /\ ret = "NONE"
    /\ reports = <<>>
    /\ InitSettings
    /\ laspy_installed \in (IF settings.export_las THEN BOOLEAN ELSE {TRUE})
    /\ frame_current \in (IF op = "animation" THEN EntryFrames ELSE {0})
    /\ entry_frame = frame_current
    /\ original_frame = NoFrame
    /\ frame \in (IF op = "export" THEN {NoFrame, 1} ELSE {NoFrame})
    /\ points \in (IF op = "export" THEN PointLists ELSE {<<>>})
    /\ all_points = <<>>
    /\ visited = <<>>
    /\ failed_frames = {}
    /\ scanned = <<>>
    /\ frame_points = <<>>
    /\ rays = 0
    /\ meshes = 0
    /\ exp = IdleExport
    /\ exports = <<>>
    /\ files = EmptyMap
    /\ las_cause = "none"
    /\ faults = 0
    /\ directions = <<>>
    /\ casts = <<>>
    /\ config_log = <<>>
    /\ sweep = NoSweep

Next ==
    \/ AnimCheck
    \/ AnimFrameSet
    \/ AnimScan
    \/ AnimRestore
    \/ AnimMesh
    \/ AnimFinalExport
    \/ AnimFinish
    \/ ScanSweep
    \/ ScanMesh
    \/ ScanExport
    \/ ScanFinish
    \/ ExporterExport
    \/ ExporterReturn
    \/ ExportPly
    \/ ExportCsv
    \/ ExportLas
    \/ ExportPcd
    \/ ExportReturn

Spec == Init /\ [][Next]_vars

\* ================================================================== claims
\* ------------------------------------------------- vocabulary of the claims
IsPrefix(s, t) == Len(s) <= Len(t) /\ s = SubSeq(t, 1, Len(s))

RECURSIVE Flatten(_)
Flatten(ss) == IF ss = <<>> THEN <<>> ELSE Head(ss) \o Flatten(Tail(ss))

\* The frames frame_start, frame_start + frame_step, ... that are <= frame_end
ExpectedFrames ==
    LET fs == settings.frame_start
        st == settings.frame_step
        n  == Cardinality({f \in fs..settings.frame_end : (f - fs) % st = 0})
    IN  [i \in 1..n |-> fs + (i - 1) * st]

EnabledFormats == {f \in FormatSet : Enabled(f)}

\* The export_all_formats calls so far as <<frame, points>>, finished or aborted
ExportCalls == [i \in DOMAIN exports |-> <<exports[i].frame, exports[i].points>>]

\* Every export pass, the running one included
Passes ==
    {exports[i] : i \in DOMAIN exports}
        \cup (IF exp.idx > 0 THEN {ExportRecord(exp, FALSE)} ELSE {})

\* The sweeps that returned at least one point, as <<frame, points>>, in order
NonEmptySweeps ==
    LET Kept(x) == x[2] # <<>>
    IN  SelectSeq([i \in DOMAIN frame_points |-> <<scanned[i], frame_points[i]>>],
                  Kept)

AnimSweepRuns == op = "animation" /\ settings.enable_animation

\* C1: however the animation sweep ends, the scene's current frame is the
\* one it had when the sweep was invoked.
C1_FrameRestored ==
    (op = "animation" /\ pc = "done") => frame_current = entry_frame

\* C2: with animation enabled, frame_start <= frame_end and frame_step >= 1 the
\* sweep advances to the frames frame_start, frame_start + frame_step, ... <=
\* frame_end, each once and in ascending order, and runs one sweep after each
\* advance: at every moment the frames advanced to are an initial part of that
\* list, the sweeps follow the advances one for one, and a sweep that finishes
\* has advanced to and swept all of them.
C2_VisitsRange ==
    (AnimSweepRuns /\ settings.frame_start <= settings.frame_end
                   /\ settings.frame_step >= 1) =>
        /\ IsPrefix(visited, ExpectedFrames)
        /\ IsPrefix(scanned, visited)
        /\ pc = "loop" => scanned = visited
        /\ pc = "sweep" => Len(visited) = Len(scanned) + 1
        /\ pc \in {"mesh", "final", "finish"} \/ ret = "FINISHED" =>
              visited = ExpectedFrames /\ scanned = ExpectedFrames

C2_Witness ==
    /\ op = "animation"
    /\ ret = "FINISHED"
    /\ visited = <<1, 3, 5>>
    /\ scanned = <<1, 3, 5>>

\* C3: when frame_set fails for a frame, the sweep goes on: once it is over,
\* every frame of the range has been advanced to, every frame whose advance
\* succeeded has been swept, and the points collected have been exported.
C3_ContinuesAfterFailedAdvance ==
    (op = "animation" /\ pc = "done" /\ failed_frames # {}) =>
        /\ visited = ExpectedFrames
        /\ \A i \in DOMAIN ExpectedFrames :
              ExpectedFrames[i] \notin failed_frames =>
                  \E j \in DOMAIN scanned : scanned[j] = ExpectedFrames[i]
        /\ (all_points # <<>> /\ EnabledFormats # {}) =>
              \A k \in DOMAIN all_points :
                  \E r \in Passes : \E m \in DOMAIN r.points :
                      r.points[m] = all_points[k]

\* C4: with enable_animation false, frame_start > frame_end or frame_step < 1
\* the animation sweep is rejected at once: it ends cancelled with an error
\* report, and no frame is visited, no sweep run, no file exported.
C4_Rejected ==
    (op = "animation"
        /\ (~settings.enable_animation
            \/ settings.frame_start > settings.frame_end
            \/ settings.frame_step < 1)) =>
        /\ visited = <<>>
        /\ scanned = <<>>
        /\ exports = <<>>
        /\ files = EmptyMap
        /\ pc = "done" => ret = "CANCELLED" /\ reports = <<"ERROR">>

\* C5 as claimed: with export_single_frames every visited frame is exported
\* once, right after its sweep, under its frame number, and nothing is
\* exported after the loop; without it nothing is exported inside the loop and
\* exactly one pass over all frames' points runs after the loop.
C5_ExportPolicy ==
    (AnimSweepRuns /\ settings.frame_start <= settings.frame_end
                   /\ ret = "FINISHED") =>
        IF settings.export_single_frames
        THEN ExportCalls =
                 [i \in DOMAIN scanned |-> <<scanned[i], frame_points[i]>>]
        ELSE ExportCalls = << <<NoFrame, Flatten(frame_points)>> >>

\* C5 as amended: with export_single_frames each sweep that returned at least
\* one point is exported once, right after that sweep and before the next
\* frame is visited, to files named with that frame's number, and no pass
\* runs after the loop; a sweep that returned nothing is not exported.
\* Without export_single_frames nothing is exported inside the loop, and
\* after the loop one pass over the concatenation of all frames' points (in
\* frame order) runs when that concatenation is not empty, none otherwise.
C5_ExportPolicyAmended ==
    AnimSweepRuns =>
        /\ all_points = Flatten(frame_points)
        /\ settings.export_single_frames =>
              /\ IsPrefix(ExportCalls, NonEmptySweeps)
              /\ pc \in {"loop", "sweep", "mesh", "final", "finish"}
                    \/ ret = "FINISHED" => ExportCalls = NonEmptySweeps
              /\ pc = "export" =>
                    /\ Len(NonEmptySweeps) = Len(ExportCalls) + 1
                    /\ <<exp.frame, exp.points>> =
                           NonEmptySweeps[Len(NonEmptySweeps)]
                    /\ exp.frame = scanned[Len(scanned)]
              /\ \A path \in DOMAIN files :
                    \E i \in DOMAIN NonEmptySweeps :
                        /\ path.suffix = Pad4(NonEmptySweeps[i][1])
                        /\ IsPrefix(files[path].records, NonEmptySweeps[i][2])
        /\ ~settings.export_single_frames =>
              /\ pc \in {"loop", "sweep", "mesh", "final"} =>
                    exports = <<>> /\ files = EmptyMap
              /\ \A r \in Passes : r.frame = NoFrame /\ r.points = all_points
              /\ \A path \in DOMAIN files : path.suffix = <<>>
              /\ Len(exports) <= 1
              /\ pc = "finish" \/ ret = "FINISHED" =>
                    Len(exports) = IF all_points # <<>> THEN 1 ELSE 0

C5_Witness ==
    /\ op = "animation"
    /\ ret = "FINISHED"
    /\ settings.export_single_frames
    /\ Len(scanned) = 3
    /\ frame_points[2] = <<>>
    /\ Len(exports) = 2
    /\ [ext |-> "ply", suffix |-> <<0, 0, 0, 3>>] \in DOMAIN files

\* The file an encoder leaves for a complete point list
IsCompleteFile(c, pts) ==
    /\ c.header # <<>>
    /\ \A i \in DOMAIN c.header :
          c.header[i].key # "columns" => c.header[i].count = Len(pts)
    /\ c.records = pts

\* C6: an encoder either leaves a complete file at the output path and
\* reports success, or leaves no file there and reports failure.
C6_AtomicWrite ==
    \A r \in Passes : \A fmt \in DOMAIN r.results :
        LET path == get_export_filepath(fmt, r.frame)
        IN  IF r.results[fmt]
            THEN path \in DOMAIN files /\ IsCompleteFile(files[path], r.points)
            ELSE path \notin DOMAIN files

\* C7: a filesystem error for one format aborts that format only: every
\* export pass that has ended reports a result for every enabled format.
C7_PerFormatFailure ==
    \A i \in DOMAIN exports :
        /\ ~exports[i].raised
        /\ EnabledFormats \subseteq DOMAIN exports[i].results

\* C8: what export_las reports when the codec is missing differs from what
\* it reports for a write failure, and in both cases the formats after it
\* are still exported.
C8_UnavailableDistinct ==
    /\ ("las" \in DOMAIN exp.results /\ las_cause = "unavailable") =>
          exp.results["las"] #
              export_las(exp.points, get_export_filepath("las", exp.frame),
                         files, TRUE, OpenFault).ok
    /\ \A i \in DOMAIN exports :
          ("las" \in DOMAIN exports[i].results /\ ~exports[i].results["las"]
              /\ settings.export_pcd /\ ~exports[i].raised) =>
                  "pcd" \in DOMAIN exports[i].results

\* C9: a scan requested while no output format is enabled is rejected before
\* the sweep: no ray is cast and no point collected.
C9_RejectedBeforeSweep ==
    (op = "scan" /\ ~AnyFormatEnabled) =>
        /\ rays = 0
        /\ points = <<>>
        /\ frame_points = <<>>
        /\ pc = "done" => ret = "CANCELLED"

\* C10 as claimed: a sweep that accepts no point still ends without error and
\* leaves, for every enabled format, a file declaring 0 points with no point
\* records.
C10_EmptySweepExported ==
    (op = "scan" /\ pc = "done" /\ faults = 0 /\ laspy_installed
        /\ frame_points = << <<>> >> /\ AnyFormatEnabled) =>
        /\ ret = "FINISHED"
        /\ \A fmt \in EnabledFormats :
              LET path == get_export_filepath(fmt, NoFrame)
              IN  path \in DOMAIN files /\ IsCompleteFile(files[path], <<>>)

\* C10 as amended: every encoder called with an empty point list, when no
\* I/O error occurs (and, for LAS, the codec is installed), reports success
\* and leaves a file that declares 0 points and has no point records.  The
\* operators never hand an empty list to the encoders: LIDAR_OT_scan ends
\* cancelled with a warning and exports nothing when the sweep accepted no
\* point, and the animation sweep exports neither an empty frame nor an empty
\* accumulation.
C10_EmptyListAmended ==
    /\ \A r \in Passes : \A fmt \in DOMAIN r.results :
          r.points = <<>> =>
              LET path == get_export_filepath(fmt, r.frame)
              IN  /\ (faults = 0 /\ (fmt = "las" => laspy_installed)) =>
                         r.results[fmt]
                  /\ r.results[fmt] =>
                         /\ path \in DOMAIN files
                         /\ files[path].header # <<>>
                         /\ \A i \in DOMAIN files[path].header :
                               files[path].header[i].key # "columns" =>
                                   files[path].header[i].count = 0
                         /\ files[path].records = <<>>
    /\ (op = "scan" /\ frame_points = << <<>> >>) =>
          /\ pc = "done"
          /\ ret = "CANCELLED"
          /\ reports = <<"INFO", "WARNING">>
          /\ exports = <<>>
          /\ exp = IdleExport
          /\ files = EmptyMap
    /\ op = "animation" => \A r \in Passes : r.points # <<>>

C10_Witness ==
    /\ op = "export"
    /\ ret = "RETURNED"
    /\ Len(exports) = 1
    /\ exports[1].points = <<>>
    /\ exports[1].results = [f \in FormatSet |-> TRUE]
    /\ \A f \in FormatSet :
          files[get_export_filepath(f, exports[1].frame)].records = <<>>

\* =========================================================== ray generation
\* Angles are integers counting 0.0005 degree (AnglePerDegree units to the
\* degree), so every preset value and every angle -fov/2 + idx * res is exact.
AnglePerDegree == 2000

ResolutionFloor == 20       \* 0.01 degree: max(0.01, settings.resolution_*)

\* Hard limits of the FloatProperty declarations
FovMin == 2000              \* fov_h, fov_v: min=1.0
FovHMax == 720000           \* fov_h: max=360.0
FovVMax == 180000           \* fov_v: max=90.0
ResMin == 20                \* resolution_h, resolution_v: min=0.01
ResMax == 10000             \* resolution_h, resolution_v: max=5.0

MaxFovHalves == 2           \* fields of view tried: 1, 1.5, ... degrees
MaxDirections == 128        \* largest grid generated

Abs(x) == IF x < 0 THEN -x ELSE x

\* int(a / b) of Python: the quotient truncated toward zero (b # 0)
TruncDiv(a, b) ==
    IF (a >= 0) = (b > 0)
    THEN Abs(a) \div Abs(b)
    ELSE -(Abs(a) \div Abs(b))

\* max(0.01, settings.resolution_h)
EffectiveResolution_Raw(res) == res

EffectiveResolution(res) == IF res > ResolutionFloor THEN res ELSE ResolutionFloor

\* range(steps + 1): the indices 0 .. steps, none when steps + 1 <= 0
LoopCount_Exclusive(steps) == IF steps > 0 THEN steps ELSE 0

LoopCount(steps) == IF steps + 1 > 0 THEN steps + 1 ELSE 0

\* angle = start + idx * res
AngleAt_Fixed(start, idx, res) == start + res

AngleAt(start, idx, res) == start + idx * res

\* Body of the inner loop: the tuple appended for (v_idx, h_idx). The unit
\* vector of the tuple is a function of the two angles and is not kept.
Sample(h_start, v_start, res_h, res_v, h_idx, v_idx) ==
    [angle_h |-> AngleAt(h_start, h_idx, res_h),
     angle_v |-> AngleAt(v_start, v_idx, res_v)]

\* for h_idx in range(h_steps + 1): ...
InnerLoop(h_start, v_start, res_h, res_v, h_steps, v_idx) ==
    [k \in 1..LoopCount(h_steps) |->
        Sample(h_start, v_start, res_h, res_v, k - 1, v_idx)]

\* for v_idx in range(v_steps + 1): for h_idx in ...
RECURSIVE OuterLoop(_, _, _, _, _, _, _)
OuterLoop(h_start, v_start, res_h, res_v, h_steps, v_steps, v_idx) ==
    IF v_idx >= LoopCount(v_steps)
    THEN <<>>
    ELSE InnerLoop(h_start, v_start, res_h, res_v, h_steps, v_idx)
            \o OuterLoop(h_start, v_start, res_h, res_v, h_steps, v_steps,
                         v_idx + 1)

\* LiDARScanner.generate_ray_directions; `raised` is the ZeroDivisionError of
\* fov / res
generate_ray_directions(s) ==
    LET fov_h == s.fov_h
        fov_v == s.fov_v
        res_h == EffectiveResolution(s.resolution_h)
        res_v == EffectiveResolution(s.resolution_v)
    IN  IF res_h = 0 \/ res_v = 0
        THEN [raised |-> TRUE, directions |-> <<>>]
        ELSE LET h_steps == TruncDiv(fov_h, res_h)
                 v_steps == TruncDiv(fov_v, res_v)
                 h_start == -(fov_h \div 2)
                 v_start == -(fov_v \div 2)
             IN  [raised |-> FALSE,
                  directions |-> OuterLoop(h_start, v_start, res_h, res_v,
                                           h_steps, v_steps, 0)]

\* LIDAR_OT_estimate_points.execute: the total it reports; `raised` is the
\* ZeroDivisionError of fov / max(0.01, res)
estimate_points(s) ==
    LET res_h == EffectiveResolution(s.resolution_h)
        res_v == EffectiveResolution(s.resolution_v)
    IN  IF res_h = 0 \/ res_v = 0
        THEN [raised |-> TRUE, total |-> 0]
        ELSE [raised |-> FALSE,
              total |-> (TruncDiv(s.fov_h, res_h) + 1)
                            * (TruncDiv(s.fov_v, res_v) + 1)]

\* Fields of view tried: 0 (the 2D scanner of the catalog) and 1, 1.5, ...
\* degrees; every value is even, so fov / 2 is exact
FovChoices ==
    {0} \cup {FovMin + k * (FovMin \div 2) : k \in 0..MaxFovHalves}

\* Resolutions tried: negative, zero, the floor, 0.5, 0.75 and 5 degrees
ResChoices ==
    {-ResolutionFloor, 0, ResolutionFloor, AnglePerDegree \div 2,
     (3 * AnglePerDegree) \div 4, ResMax}

\* Samples along one axis of the grids tried (non-positive resolutions count
\* as the floor)
AxisSamples(fov, res) ==
    fov \div (IF res > ResolutionFloor THEN res ELSE ResolutionFloor) + 1

RaySettings(fh, fv, rh, rv) ==
    [fov_h |-> fh, fov_v |-> fv, resolution_h |-> rh, resolution_v |-> rv]

\* Everything the ray generator does not use, at rest
RestIdle ==
    /\ laspy_installed = TRUE
    /\ frame_current = 0
    /\ entry_frame = 0
    /\ original_frame = NoFrame
    /\ frame = NoFrame
    /\ all_points = <<>>
    /\ visited = <<>>
    /\ failed_frames = {}
    /\ scanned = <<>>
    /\ frame_points = <<>>
    /\ meshes = 0
    /\ exp = IdleExport
    /\ exports = <<>>
    /\ files = EmptyMap
    /\ las_cause = "none"
    /\ faults = 0

restvars ==
    <<laspy_installed, frame_current, entry_frame, original_frame, frame,
      all_points, visited, failed_frames, scanned, frame_points, meshes, exp,
      exports, files, las_cause, faults>>

RayInit ==
    /\ op \in {"rays", "estimate"}
    /\ pc = "start"
    /\ ret = "NONE"
    /\ reports = <<>>
    /\ \E fh \in FovChoices, fv \in FovChoices,
          rh \in ResChoices, rv \in ResChoices :
            /\ AxisSamples(fh, rh) * AxisSamples(fv, rv) <= MaxDirections
            /\ settings = RaySettings(fh, fv, rh, rv)
    /\ points = <<>>
    /\ rays = 0
    /\ directions = <<>>
    /\ casts = <<>>
    /\ config_log = <<>>
    /\ sweep = NoSweep
    /\ RestIdle

\* directions = self.generate_ray_directions()
GenerateRayDirections ==
    /\ op = "rays"
    /\ ret = "NONE"
    /\ LET g == generate_ray_directions(settings)
       IN  /\ directions' = g.directions
           /\ ret' = IF g.raised THEN "EXCEPTION" ELSE "RETURNED"
    /\ UNCHANGED <<op, pc, reports, settings, points, rays, casts, config_log,
                   sweep>>
    /\ UNCHANGED restvars

\* LIDAR_OT_estimate_points.execute
EstimatePoints ==
    /\ op = "estimate"
    /\ ret = "NONE"
    /\ LET e == estimate_points(settings)
       IN  IF e.raised
           THEN /\ ret' = "EXCEPTION"
                /\ UNCHANGED reports
           ELSE /\ ret' = "FINISHED"
                /\ reports' = <<[level |-> "INFO", total |-> e.total]>>
    /\ UNCHANGED <<op, pc, settings, points, rays, directions, casts,
                   config_log, sweep>>
    /\ UNCHANGED restvars

RayNext ==
    \/ GenerateRayDirections
    \/ EstimatePoints

RaySpec == RayInit /\ [][RayNext]_vars

\* ------------------------------------------------ claims on ray generation
\* The configuration is within the hard limits of the properties
InClamp(s) ==
    /\ s.fov_h \in FovMin..FovHMax
    /\ s.fov_v \in FovMin..FovVMax
    /\ s.resolution_h \in ResMin..ResMax
    /\ s.resolution_v \in ResMin..ResMax

Generated == op = "rays" /\ ret # "NONE"

\* The Velodyne-like example of the claim: 360 x 30 degrees at 0.2 x 1.0
Example360x30 ==
    RaySettings(360 * AnglePerDegree, 30 * AnglePerDegree,
                AnglePerDegree \div 5, AnglePerDegree)

\* C11: for every fov and resolution within the clamp bounds the generator
\* returns exactly (floor(fov_h/res_h)+1) * (floor(fov_v/res_v)+1) samples,
\* which is also the total LIDAR_OT_estimate_points reports (55831 for
\* 360 x 30 degrees at 0.2 x 1.0).
C11_DirectionCount ==
    LET expected == (settings.fov_h \div settings.resolution_h + 1)
                        * (settings.fov_v \div settings.resolution_v + 1)
    IN  (op \in {"rays", "estimate"} /\ InClamp(settings) /\ ret # "NONE") =>
          /\ op = "rays" =>
                ret = "RETURNED" /\ Len(directions) = expected
          /\ op = "estimate" =>
                /\ ret = "FINISHED"
                /\ reports = <<[level |-> "INFO", total |-> expected]>>
          /\ estimate_points(Example360x30).total = 55831

\* fov 1.5 x 1 degrees at 0.5 x 0.75: 4 columns, 2 rows, 8 samples
C11_Witness ==
    /\ Generated
    /\ InClamp(settings)
    /\ settings = RaySettings(3000, 2000, 1000, 1500)
    /\ Len(directions) = 8

\* C12: the sequence is row-major with the vertical index outermost: sample i
\* (0-based) has vertical index i div (h_steps+1) and horizontal index
\* i mod (h_steps+1); inside a row the horizontal angle strictly increases and
\* the vertical angle is constant, and the vertical angle never decreases
\* along the sequence.
C12_RowMajor ==
    Generated =>
        LET res_h  == IF settings.resolution_h > ResolutionFloor
                      THEN settings.resolution_h ELSE ResolutionFloor
            res_v  == IF settings.resolution_v > ResolutionFloor
                      THEN settings.resolution_v ELSE ResolutionFloor
            width  == settings.fov_h \div res_h + 1
            Row(i) == (i - 1) \div width
            Col(i) == (i - 1) % width
            n      == Len(directions)
        IN  /\ \A i \in 1..n :
                  /\ directions[i].angle_h
                        = -(settings.fov_h \div 2) + Col(i) * res_h
                  /\ directions[i].angle_v
                        = -(settings.fov_v \div 2) + Row(i) * res_v
            /\ \A i \in 1..(n - 1) :
                  /\ Row(i) = Row(i + 1) =>
                        /\ directions[i].angle_h < directions[i + 1].angle_h
                        /\ directions[i].angle_v = directions[i + 1].angle_v
                  /\ directions[i].angle_v <= directions[i + 1].angle_v

\* A grid of at least two rows of at least two columns
C12_Witness ==
    /\ Generated
    /\ settings = RaySettings(3000, 2000, 1000, 1500)
    /\ directions[1].angle_v = directions[4].angle_v
    /\ directions[4].angle_v < directions[5].angle_v
    /\ directions[5].angle_h < directions[4].angle_h

\* C13: within the clamp bounds the angles on each axis run from -fov/2 to
\* +fov/2 inclusive: the first sample of a row is at -fov_h/2 and the last at
\* +fov_h/2, the first row at -fov_v/2 and the last row at +fov_v/2.
C13_BoundaryAngles ==
    (Generated /\ InClamp(settings)) =>
        LET n == Len(directions)
        IN  /\ n > 0
            /\ directions[1].angle_h = -(settings.fov_h \div 2)
            /\ directions[n].angle_h = settings.fov_h \div 2
            /\ directions[1].angle_v = -(settings.fov_v \div 2)
            /\ directions[n].angle_v = settings.fov_v \div 2

\* C14: generation ends without a division by zero for every configuration,
\* a resolution <= 0 and a field of view of 0 included: a non-positive
\* resolution acts as the minimum 0.01 and the result is a finite, non-empty
\* sequence.
C14_NoDivisionByZero ==
    LET AsMinimum(res) == IF res <= 0 THEN ResMin ELSE res
        floored == [settings EXCEPT
                      !.resolution_h = AsMinimum(settings.resolution_h),
                      !.resolution_v = AsMinimum(settings.resolution_v)]
    IN  /\ Generated =>
            /\ ret = "RETURNED"
            /\ directions # <<>>
            /\ Len(directions) = AxisSamples(settings.fov_h, settings.resolution_h)
                                    * AxisSamples(settings.fov_v, settings.resolution_v)
            /\ Len(directions)
                  = (floored.fov_h \div floored.resolution_h + 1)
                        * (floored.fov_v \div floored.resolution_v + 1)
        /\ (op = "estimate" /\ ret # "NONE") => ret = "FINISHED"

\* The 2D scanner of the catalog: fov_v = 0 and resolution_v = 0 give one row
C14_Witness ==
    /\ Generated
    /\ settings = RaySettings(2000, 0, 0, 0)
    /\ Len(directions) = 101
    /\ \A i \in 1..101 : directions[i].angle_v = 0

\* ======================================================== measurement model
\* Lengths are integers counting millimetres, probabilities and random draws
\* integers counting thousandths, fog density hundredths. An intensity is an
\* exact fraction [n, d] in lowest terms.
MmPerMetre == 1000

PerMille == 1000

MaxRangeM == 2              \* range_min, range_max: 1 .. MaxRangeM metres
MaxDistanceM == 3           \* hits lie at 0 .. MaxDistanceM metres
AttGrid == 4                \* exp() values are drawn from k / AttGrid

RECURSIVE GCD(_, _)
GCD(a, b) == IF b = 0 THEN a ELSE GCD(b, a % b)

\* The fraction n/d (n >= 0, d > 0) in lowest terms
Frac(n, d) == LET g == GCD(n, d) IN [n |-> n \div g, d |-> d \div g]

One == [n |-> 1, d |-> 1]

FMul(a, b) == Frac(a.n * b.n, a.d * b.d)

FLess(a, b) == a.n * b.d < b.n * a.d

FMax(a, b) == IF FLess(a, b) THEN b ELSE a

FMin(a, b) == IF FLess(b, a) THEN b ELSE a

\* random.random(): a value in [0, 1), in thousandths
UnitDraws == {0, 500}

\* random.uniform(0.3, 0.9), in tenths
RainReturnFactors == {5}

\* math.exp(-k), k = kn/kd >= 0, is not computed: it is drawn from the grid
\* values a/AttGrid next to the interval 1 - k <= exp(-k) <= 1/(1 + k)
ExpNeg(kn, kd) ==
    IF kn = 0
    THEN {One}
    ELSE {Frac(a, AttGrid) :
            a \in {b \in 0..AttGrid :
                     /\ (b - 1) * (kd + kn) < AttGrid * kd
                     /\ (b + 1) * kd > AttGrid * (kd - kn)}}

\* The noise value drawn for sigma (mm): gauss(0, sigma) is unbounded,
\* uniform(-2 sigma, 2 sigma) is not, the Rayleigh magnitude carries a random
\* sign
NoiseDraws(noise_type, sigma) ==
    CASE noise_type = "GAUSSIAN" -> {-3 * sigma, 0, sigma}
      [] noise_type = "UNIFORM"  -> {-2 * sigma, 2 * sigma}
      [] noise_type = "RAYLEIGH" -> {-sigma, sigma}
      [] OTHER                   -> {0}

\* apply_noise_to_distance: the distances it can return
apply_noise_to_distance_Unfloored(s, distance) ==
    IF ~s.enable_noise
    THEN {distance}
    ELSE {distance + noise :
            noise \in NoiseDraws(s.noise_type, s.range_sigma_m)}

apply_noise_to_distance(s, distance) ==
    IF ~s.enable_noise
    THEN {distance}
    ELSE {IF distance + noise > 0 THEN distance + noise ELSE 0 :
            noise \in NoiseDraws(s.noise_type, s.range_sigma_m)}

\* should_dropout: the answers it can give
should_dropout_Ungated(s) == {u < s.dropout_prob : u \in UnitDraws}

should_dropout_Never(s) == {FALSE}

should_dropout(s) ==
    IF ~s.enable_noise
    THEN {FALSE}
    ELSE {u < s.dropout_prob : u \in UnitDraws}

\* min(1.0, max(0.0, intensity))
Clamp01_None(x) == x

Clamp01(x) == FMin(One, FMax(Frac(0, 1), x))

\* calculate_intensity; base is the reflectance of the hit material (1.0
\* without one) and cos_angle is |normal . -ray_dir|, both in tenths
calculate_intensity(s, distance, base, cos_angle) ==
    IF ~s.enable_intensity
    THEN One
    ELSE LET base_intensity == Frac(base, 10)
             angle_factor == FMax(Frac(1, 10), Frac(cos_angle, 10))
             sq == distance * distance
             distance_factor ==
                 CASE s.intensity_falloff = "QUADRATIC" ->
                        Frac(100 * MmPerMetre * MmPerMetre,
                             IF sq > MmPerMetre * MmPerMetre
                             THEN sq ELSE MmPerMetre * MmPerMetre)
                   [] s.intensity_falloff = "LINEAR" ->
                        Frac(10 * MmPerMetre,
                             IF distance > MmPerMetre
                             THEN distance ELSE MmPerMetre)
                   [] OTHER -> One
         IN  Clamp01(FMul(FMul(base_intensity, angle_factor), distance_factor))

\* Rain branch of apply_weather_effects: the <<distance, intensity>> it can
\* leave
RainEffects(s, distance, intensity) ==
    IF s.rain_rate > 0
    THEN UNION {
           UNION {
             IF u * 10 * MmPerMetre < s.rain_rate * distance
             THEN {<<(distance * f) \div 10, FMul(intensity, rain_atten)>> :
                     f \in RainReturnFactors}
             ELSE {<<distance, FMul(intensity, rain_atten)>>}
             : u \in UnitDraws}
           : rain_atten \in ExpNeg(s.rain_rate * distance, 100 * MmPerMetre)}
    ELSE {<<distance, intensity>>}

\* apply_weather_effects: the <<distance, intensity, valid>> it can return
apply_weather_effects_NoThreshold(s, distance, intensity) ==
    IF ~s.enable_weather
    THEN {<<distance, intensity, TRUE>>}
    ELSE UNION {
           IF s.fog_density > 0
           THEN {<<r[1], FMul(r[2], fog_atten), TRUE>> :
                   fog_atten \in ExpNeg(s.fog_density * r[1],
                                        100 * 50 * MmPerMetre)}
           ELSE {<<r[1], r[2], TRUE>>}
           : r \in RainEffects(s, distance, intensity)}

apply_weather_effects(s, distance, intensity) ==
    IF ~s.enable_weather
    THEN {<<distance, intensity, TRUE>>}
    ELSE UNION {
           IF s.fog_density > 0
           THEN {LET i2 == FMul(r[2], fog_atten)
                 IN  <<r[1], i2, ~FLess(i2, Frac(5, 100))>> :
                   fog_atten \in ExpNeg(s.fog_density * r[1],
                                        100 * 50 * MmPerMetre)}
           ELSE {<<r[1], r[2], TRUE>>}
           : r \in RainEffects(s, distance, intensity)}

\* if distance < range_min or distance > range_max: return None
RangeGate_MinOnly(s, distance) == distance < s.range_min

RangeGate(s, distance) == distance < s.range_min \/ distance > s.range_max

None == [none |-> TRUE]

\* ScanPoint: the fields the measurement decides. `range` is the distance the
\* position was computed from (noisy_position = origin + dir * noisy_distance)
ScanPoint_Unnumbered(ray, range, distance, intensity) ==
    [ray |-> ray, range |-> range, distance |-> distance,
     intensity |-> intensity, return_number |-> 0]

ScanPoint(ray, range, distance, intensity) ==
    [ray |-> ray, range |-> range, distance |-> distance,
     intensity |-> intensity, return_number |-> 1]

\* One pass through cast_ray: what it returns (None or a ScanPoint), the
\* statement it returned at, and the intensity it held there
Step(result, at, intensity) ==
    [result |-> result, at |-> at, intensity |-> intensity]

\* cast_ray for ray number `ray` whose scene.ray_cast returned `hit`: the
\* passes it can make
cast_ray_steps(s, ray, hit) ==
    IF ~hit.result
    THEN {Step(None, "ray_cast", One)}
    ELSE IF RangeGate(s, hit.distance)
    THEN {Step(None, "range", One)}
    ELSE UNION {
           IF drop
           THEN {Step(None, "dropout", One)}
           ELSE UNION {
                  {IF w[3]
                   THEN Step(ScanPoint(ray, noisy_distance, w[1], w[2]),
                             "return", w[2])
                   ELSE Step(None, "weather", w[2]) :
                     w \in apply_weather_effects(
                             s, noisy_distance,
                             calculate_intensity(s, hit.distance, hit.base,
                                                 hit.cos_angle))}
                  : noisy_distance \in apply_noise_to_distance(s, hit.distance)}
           : drop \in should_dropout(s)}

\* cast_ray: the results it can return (None or a ScanPoint)
cast_ray(s, ray, hit) == {t.result : t \in cast_ray_steps(s, ray, hit)}

\* What scene.ray_cast can return for one ray
Miss == [result |-> FALSE, distance |-> 0, base |-> 10, cos_angle |-> 10]

HitChoices ==
    {Miss} \cup
    {[result |-> TRUE, distance |-> m * MmPerMetre, base |-> g[1],
      cos_angle |-> g[2]] :
        m \in 0..MaxDistanceM, g \in {<<4, 0>>, <<20, 10>>}}

\* int(point.intensity * 255) of export_ply
ply_gray(p) == (p.intensity.n * 255) \div p.intensity.d

\* int(p.intensity * 65535) of export_las
las_intensity(p) == (p.intensity.n * 65535) \div p.intensity.d

\* The settings one sweep reads. The grid is one row of two columns, at
\* -2.5 and +2.5 degrees.
MeasureSettings(rmin, rmax, noise, ntype, dropout, weather, rain, fog, inten, falloff) ==
    [fov_h |-> ResMax, fov_v |-> FovMin,
     resolution_h |-> ResMax, resolution_v |-> ResMax,
     range_min |-> rmin, range_max |-> rmax,
     enable_noise |-> noise, noise_type |-> ntype, range_sigma_m |-> 500,
     dropout_prob |-> dropout,
     enable_weather |-> weather, rain_rate |-> rain, fog_density |-> fog,
     enable_intensity |-> inten, intensity_falloff |-> falloff]

RangeChoices == {m * MmPerMetre : m \in 1..MaxRangeM}

\* enable_noise with the distribution (one distribution when disabled)
NoiseChoices ==
    {<<FALSE, "GAUSSIAN">>, <<TRUE, "GAUSSIAN">>, <<TRUE, "UNIFORM">>,
     <<TRUE, "RAYLEIGH">>}

\* 0, the property's maximum 0.3, and 1.0
DropoutChoices == {0, 300, PerMille}

\* enable_weather, rain_rate (mm/h), fog_density (hundredths)
WeatherChoices ==
    {<<FALSE, 100, 100>>, <<TRUE, 100, 0>>, <<TRUE, 0, 100>>,
     <<TRUE, 100, 100>>}

\* enable_intensity with the falloff kind (one kind when disabled)
IntensityChoices ==
    {<<FALSE, "NONE">>, <<TRUE, "NONE">>, <<TRUE, "LINEAR">>,
     <<TRUE, "QUADRATIC">>}

MeasureInit ==
    /\ op = "sweep"
    /\ pc = "start"
    /\ ret = "NONE"
    /\ reports = <<>>
    /\ \E rmin \in RangeChoices, rmax \in RangeChoices, nz \in NoiseChoices,
          dropout \in DropoutChoices, w \in WeatherChoices,
          it \in IntensityChoices :
            settings = MeasureSettings(rmin, rmax, nz[1], nz[2], dropout,
                                       w[1], w[2], w[3], it[1], it[2])
    /\ points = <<>>
    /\ rays = 0
    /\ directions = <<>>
    /\ casts = <<>>
    /\ config_log = <<>>
    /\ sweep = NoSweep
    /\ RestIdle

\* LiDARScanner.scan up to the loop: self.points = [], the direction set
SweepStart_NoReset ==
    /\ op = "sweep"
    /\ pc = "start"
    /\ points' = points
    /\ directions' = generate_ray_directions(settings).directions
    /\ rays' = 0
    /\ casts' = <<>>
    /\ sweep' = [n |-> sweep.n + 1, pose |-> 1, generated |-> 1, edits |-> 0,
                 settings |-> settings]
    /\ pc' = "cast"
    /\ UNCHANGED <<op, ret, reports, settings, config_log>>
    /\ UNCHANGED restvars

SweepStart ==
    /\ op = "sweep"
    /\ pc = "start"
    /\ points' = <<>>
    /\ directions' = generate_ray_directions(settings).directions
    /\ rays' = 0
    /\ casts' = <<>>
    /\ sweep' = [n |-> sweep.n + 1, pose |-> 1, generated |-> 1, edits |-> 0,
                 settings |-> settings]
    /\ pc' = "cast"
    /\ UNCHANGED <<op, ret, reports, settings, config_log>>
    /\ UNCHANGED restvars

\* One turn of the loop of scan: point = self.cast_ray(...); if point: append
CastRay_StopOnReject ==
    /\ op = "sweep"
    /\ pc = "cast"
    /\ rays < Len(directions)
    /\ \E hit \in HitChoices :
         \E t \in cast_ray_steps(settings, rays + 1, hit) :
            /\ casts' = Append(casts, [ray |-> rays + 1,
                                       result |-> hit.result,
                                       distance |-> hit.distance,
                                       at |-> t.at,
                                       intensity |-> t.intensity])
            /\ points' = IF t.result = None THEN points
                         ELSE Append(points, t.result)
            /\ pc' = IF t.result = None THEN "done" ELSE pc
            /\ ret' = IF t.result = None THEN "EXCEPTION" ELSE ret
    /\ rays' = rays + 1
    /\ UNCHANGED <<op, reports, settings, directions, config_log, sweep>>
    /\ UNCHANGED restvars

CastRay ==
    /\ op = "sweep"
    /\ pc = "cast"
    /\ rays < Len(directions)
    /\ \E hit \in HitChoices :
         \E t \in cast_ray_steps(settings, rays + 1, hit) :
            /\ casts' = Append(casts, [ray |-> rays + 1,
                                       result |-> hit.result,
                                       distance |-> hit.distance,
                                       at |-> t.at,
                                       intensity |-> t.intensity])
            /\ points' = IF t.result = None THEN points
                         ELSE Append(points, t.result)
    /\ rays' = rays + 1
    /\ UNCHANGED <<op, pc, ret, reports, settings, directions, config_log,
                   sweep>>
    /\ UNCHANGED restvars

\* return self.points
SweepReturn ==
    /\ op = "sweep"
    /\ pc = "cast"
    /\ rays = Len(directions)
    /\ pc' = "done"
    /\ ret' = "RETURNED"
    /\ UNCHANGED <<op, reports, settings, points, rays, directions, casts,
                   config_log, sweep>>
    /\ UNCHANGED restvars

MeasureNext ==
    \/ SweepStart
    \/ CastRay
    \/ SweepReturn

MeasureSpec == MeasureInit /\ [][MeasureNext]_vars

\* --------------------------------------------- claims on the measurement
\* Ray i hit something at a distance within [range_min, range_max]
Accepted(i) ==
    /\ casts[i].result
    /\ settings.range_min <= casts[i].distance
    /\ casts[i].distance <= settings.range_max

AcceptedRays == {i \in DOMAIN casts : Accepted(i)}

\* The points ray i produced
PointsOf(i) == {points[k] : k \in {j \in DOMAIN points : points[j].ray = i}}

Sweeping == op = "sweep" /\ pc # "start"

\* C15: with noise disabled every ray whose hit lies within
\* [range_min, range_max] yields a point whose reported distance is the true
\* hit distance, whatever the dropout probability and the weather settings.
C15_ExactWithoutNoise ==
    (Sweeping /\ ~settings.enable_noise) =>
        \A i \in AcceptedRays :
            \E p \in PointsOf(i) : p.distance = casts[i].distance

\* C15 as amended: with noise disabled dropout discards nothing, whatever its
\* probability, and the position is computed from the true distance; with
\* weather disabled too, every ray within range yields a point reporting the
\* true distance. With weather enabled only fog can discard the point and
\* only rain can change the distance, and then it shortens it.
C15_ExactWithoutNoiseOrWeather ==
    (Sweeping /\ ~settings.enable_noise) =>
        \A i \in AcceptedRays :
            /\ \A p \in PointsOf(i) :
                  /\ p.range = casts[i].distance
                  /\ p.distance <= casts[i].distance
            /\ ~settings.enable_weather =>
                  \E p \in PointsOf(i) : p.distance = casts[i].distance
            /\ (settings.enable_weather /\ settings.fog_density = 0) =>
                  PointsOf(i) # {}
            /\ (settings.enable_weather /\ settings.rain_rate = 0) =>
                  \A p \in PointsOf(i) : p.distance = casts[i].distance

\* Noise off, dropout probability 1.0, weather off: both rays hit within
\* range and both points report the true distance
C15_Witness ==
    /\ Sweeping
    /\ ~settings.enable_noise
    /\ ~settings.enable_weather
    /\ settings.dropout_prob = PerMille
    /\ AcceptedRays = {1, 2}
    /\ Len(points) = 2
    /\ \A i \in {1, 2} : points[i].distance = casts[i].distance

\* C16: with dropout probability 1.0 a sweep emits no point whatever is hit;
\* with dropout probability 0.0 and noise disabled the number of points is
\* the number of rays whose hit lies within [range_min, range_max].
C16_DropoutExtremes ==
    Sweeping =>
        /\ settings.dropout_prob = PerMille => points = <<>>
        /\ (settings.dropout_prob = 0 /\ ~settings.enable_noise) =>
              Len(points) = Cardinality(AcceptedRays)

\* C16 as amended: with noise enabled and dropout probability 1.0 a sweep
\* emits no point whatever is hit; with dropout probability 0.0, noise
\* disabled and no fog in effect (weather disabled or fog_density = 0) the
\* number of points is the number of rays whose hit lies within range.
C16_DropoutExtremesAmended ==
    Sweeping =>
        /\ (settings.enable_noise /\ settings.dropout_prob = PerMille) =>
              points = <<>>
        /\ (settings.dropout_prob = 0 /\ ~settings.enable_noise
                /\ (~settings.enable_weather \/ settings.fog_density = 0)) =>
              Len(points) = Cardinality(AcceptedRays)

\* Noise on with dropout probability 1.0: two hits within range, no point
C16_Witness ==
    /\ Sweeping
    /\ settings.enable_noise
    /\ settings.dropout_prob = PerMille
    /\ AcceptedRays = {1, 2}
    /\ rays = 2
    /\ points = <<>>

\* C17: a ray whose intersection lies below range_min or above range_max
\* never produces a point, under every noise, dropout and weather setting; a
\* sweep with range_min > range_max emits no point at all.
C17_RangeGating ==
    Sweeping =>
        /\ \A i \in DOMAIN casts :
              (casts[i].distance < settings.range_min
                  \/ casts[i].distance > settings.range_max) => PointsOf(i) = {}
        /\ settings.range_min > settings.range_max => points = <<>>
        /\ \A k \in DOMAIN points : points[k].ray \in AcceptedRays

\* One hit beyond range_max and one within range: only the second is kept
C17_Witness ==
    /\ Sweeping
    /\ rays = 2
    /\ casts[1].result
    /\ casts[1].distance > settings.range_max
    /\ Accepted(2)
    /\ Len(points) = 1
    /\ points[1].ray = 2

\* C18: the intensity of every emitted point lies in [0, 1], so the PLY
\* grayscale int(intensity * 255) lies in 0..255 and the LAS intensity
\* int(intensity * 65535) in 0..65535, for every reflectance, incidence
\* angle, distance, falloff kind and weather setting.
C18_IntensityInUnitInterval ==
    Sweeping =>
        \A k \in DOMAIN points :
            /\ points[k].intensity.d > 0
            /\ 0 <= points[k].intensity.n
            /\ points[k].intensity.n <= points[k].intensity.d
            /\ ply_gray(points[k]) \in 0..255
            /\ las_intensity(points[k]) \in 0..65535

\* A bright near hit whose raw intensity was cut down to 1.0, and a point
\* that weather dimmed below 1.0
C18_Witness ==
    /\ Sweeping
    /\ settings.enable_intensity
    /\ settings.intensity_falloff = "QUADRATIC"
    /\ Len(points) = 2
    /\ ply_gray(points[1]) = 255
    /\ las_intensity(points[1]) = 65535
    /\ ply_gray(points[2]) \in 1..254

\* ============================================================ configuration
\* Units as above: angles count 0.0005 degree, lengths millimetres, the
\* dropout probability thousandths; rotations_per_second counts tenths.
MaxConfigOps == 2           \* configuration operations applied in a row

RangeMaxMax == 500000       \* range_max, range_min: max=500.0
SigmaMax == 500             \* range_sigma_m: max=0.5
DropoutMax == 300           \* dropout_prob: max=0.3

\* min= and max= of the FloatProperty declarations
PropertyLimits ==
    [fov_h |-> <<FovMin, FovHMax>>,
     fov_v |-> <<FovMin, FovVMax>>,
     resolution_h |-> <<ResMin, ResMax>>,
     resolution_v |-> <<ResMin, ResMax>>,
     range_min |-> <<0, RangeMaxMax>>,
     range_max |-> <<100, RangeMaxMax>>,
     range_sigma_m |-> <<0, SigmaMax>>,
     dropout_prob |-> <<0, DropoutMax>>,
     rotations_per_second |-> <<1, 1000>>]

\* items= of the sensor_preset EnumProperty
EnumItems ==
    {"AUTO", "VELODYNE_VLP16", "VELODYNE_HDL32", "VELODYNE_HDL64",
     "OUSTER_OS1_32", "OUSTER_OS1_64", "LIVOX_MID40", "GENERIC_32",
     "GENERIC_64"}

\* default= of the property declarations
DefaultSettings ==
    [sensor_preset |-> "AUTO", fov_h |-> 720000, fov_v |-> 60000,
     resolution_h |-> 400, resolution_v |-> 2000, range_min |-> 100,
     range_max |-> 100000, range_sigma_m |-> 20, dropout_prob |-> 20,
     rotations_per_second |-> 100,
     origin |-> <<0, 0, 1800>>, rotation_deg |-> <<0, 0, 0>>,
     export_ply |-> TRUE, export_csv |-> FALSE, export_las |-> FALSE,
     export_pcd |-> FALSE, export_path |-> "//scans/",
     include_labels |-> TRUE]

\* SENSOR_PRESETS of presets.py: name, fov_h, fov_v, resolution_h,
\* resolution_v, range_min, range_max, rotations_per_second, range_accuracy
CatalogRows ==
    {
     <<"VELODYNE_VLP16", 720000, 60000, 200, 4000, 500, 100000, 50, 30>>,
     <<"VELODYNE_HDL32", 720000, 82660, 320, 2660, 1000, 100000, 100, 20>>,
     <<"VELODYNE_HDL64", 720000, 53600, 160, 800, 900, 120000, 100, 20>>,
     <<"VELODYNE_VLS128", 720000, 80000, 220, 620, 500, 300000, 100, 30>>,
     <<"OUSTER_OS0_32", 720000, 180000, 700, 5600, 300, 50000, 100, 30>>,
     <<"OUSTER_OS1_32", 720000, 90000, 700, 2800, 300, 120000, 100, 30>>,
     <<"OUSTER_OS1_64", 720000, 90000, 700, 1400, 300, 120000, 100, 30>>,
     <<"OUSTER_OS1_128", 720000, 90000, 700, 700, 300, 120000, 100, 30>>,
     <<"OUSTER_OS2_128", 720000, 45000, 360, 360, 300, 240000, 100, 30>>,
     <<"LIVOX_MID40", 76800, 76800, 100, 100, 100, 260000, 0, 20>>,
     <<"LIVOX_MID70", 140800, 154400, 100, 100, 100, 260000, 0, 20>>,
     <<"LIVOX_HORIZON", 163400, 50200, 60, 60, 100, 260000, 0, 20>>,
     <<"LIVOX_AVIA", 140800, 154400, 100, 100, 100, 450000, 0, 20>>,
     <<"HESAI_PANDAR64", 720000, 80000, 400, 1260, 300, 200000, 100, 20>>,
     <<"HESAI_PANDAR128", 720000, 80000, 200, 620, 300, 200000, 100, 20>>,
     <<"HESAI_XT32", 720000, 62000, 360, 2000, 500, 120000, 100, 20>>,
     <<"HESAI_AT128", 240000, 50800, 200, 400, 500, 200000, 100, 20>>,
     <<"ROBOSENSE_RS16", 720000, 60000, 400, 4000, 200, 150000, 100, 30>>,
     <<"ROBOSENSE_RS32", 720000, 80000, 400, 2500, 200, 200000, 100, 30>>,
     <<"ROBOSENSE_RS128", 720000, 80000, 200, 620, 200, 250000, 100, 30>>,
     <<"SICK_LMS511", 380000, 0, 334, 0, 50, 80000, 250, 25>>,
     <<"SICK_MRS6000", 240000, 30000, 260, 1260, 500, 200000, 300, 30>>,
     <<"GENERIC_16", 720000, 60000, 400, 4000, 500, 100000, 100, 30>>,
     <<"GENERIC_32", 720000, 80000, 400, 2500, 500, 100000, 100, 30>>,
     <<"GENERIC_64", 720000, 53600, 200, 840, 500, 120000, 100, 20>>,
     <<"GENERIC_128", 720000, 80000, 200, 620, 500, 200000, 100, 20>>
    }

CatalogNames == {r[1] : r \in CatalogRows}

SENSOR_PRESETS ==
    [name \in CatalogNames |->
        LET r == CHOOSE x \in CatalogRows : x[1] = name
        IN  [fov_h |-> r[2], fov_v |-> r[3], resolution_h |-> r[4],
             resolution_v |-> r[5], range_min |-> r[6], range_max |-> r[7],
             rotations_per_second |-> r[8], range_accuracy |-> r[9]]]

\* The table `presets` inside apply_preset of properties.py: name, fov_h,
\* fov_v, resolution_h, resolution_v, range_max
CallbackRows ==
    {
     <<"VELODYNE_VLP16", 720000, 60000, 400, 4000, 100000>>,
     <<"VELODYNE_HDL32", 720000, 82660, 320, 2660, 100000>>,
     <<"VELODYNE_HDL64", 720000, 53600, 160, 800, 120000>>,
     <<"OUSTER_OS1_32", 720000, 90000, 700, 2800, 120000>>,
     <<"OUSTER_OS1_64", 720000, 90000, 700, 1400, 120000>>,
     <<"LIVOX_MID40", 76800, 76800, 100, 100, 260000>>,
     <<"GENERIC_32", 720000, 80000, 400, 2500, 100000>>,
     <<"GENERIC_64", 720000, 53600, 200, 840, 120000>>
    }

CallbackNames == {r[1] : r \in CallbackRows}

presets ==
    [name \in CallbackNames |->
        LET r == CHOOSE x \in CallbackRows : x[1] = name
        IN  [fov_h |-> r[2], fov_v |-> r[3], resolution_h |-> r[4],
             resolution_v |-> r[5], range_max |-> r[6]]]

\* Assigning `value` to the FloatProperty `field`: the declared hard limits
\* are applied to the value stored
SetAttr_Unclamped(s, field, value) == [s EXCEPT ![field] = value]

SetAttr(s, field, value) ==
    LET lo == PropertyLimits[field][1]
        hi == PropertyLimits[field][2]
    IN  [s EXCEPT ![field] = IF value < lo THEN lo
                             ELSE IF value > hi THEN hi ELSE value]

\* apply_preset, the update callback of sensor_preset
apply_preset(s) ==
    IF s.sensor_preset \in CallbackNames
    THEN LET t  == presets[s.sensor_preset]
             s1 == SetAttr(s, "fov_h", t.fov_h)
             s2 == SetAttr(s1, "fov_v", t.fov_v)
             s3 == SetAttr(s2, "resolution_h", t.resolution_h)
             s4 == SetAttr(s3, "resolution_v", t.resolution_v)
         IN  SetAttr(s4, "range_max", t.range_max)
    ELSE s

\* settings.sensor_preset = name, for a name among the enum items: the value
\* is stored and the update callback runs
AssignPreset(s, name) == apply_preset([s EXCEPT !.sensor_preset = name])

\* apply_preset_to_settings of presets.py
apply_preset_to_settings(s, preset_name) ==
    IF preset_name \notin CatalogNames
    THEN [settings |-> s, result |-> FALSE]
    ELSE LET preset == SENSOR_PRESETS[preset_name]
             s1 == SetAttr(s, "fov_h", preset.fov_h)
             s2 == SetAttr(s1, "fov_v", preset.fov_v)
             s3 == SetAttr(s2, "resolution_h", preset.resolution_h)
             s4 == SetAttr(s3, "resolution_v", preset.resolution_v)
             s5 == SetAttr(s4, "range_min", preset.range_min)
             s6 == SetAttr(s5, "range_max", preset.range_max)
             s7 == SetAttr(s6, "rotations_per_second",
                           preset.rotations_per_second)
         IN  [settings |-> SetAttr(s7, "range_sigma_m", preset.range_accuracy),
              result |-> TRUE]

\* _clamp(value, min_v, max_v) of operators.py
_clamp(value, min_v, max_v) ==
    LET m == IF max_v < value THEN max_v ELSE value
    IN  IF min_v > m THEN min_v ELSE m

\* _map_sensor_preset of operators.py
_map_sensor_preset(preset_name) ==
    CASE preset_name = "Velodyne"  -> "VELODYNE_VLP16"
      [] preset_name = "Generic32" -> "GENERIC_32"
      [] OTHER                     -> "AUTO"

\* A number of a JSON document, by where it lies against the limits of the
\* field it is meant for
JsonLevels == {"below", "inside", "above"}

JsonNumber(field, level) ==
    LET lo == PropertyLimits[field][1]
        hi == PropertyLimits[field][2]
    IN  CASE level = "below" -> lo - 1
          [] level = "above" -> hi + 1
          [] OTHER           -> lo + (hi - lo) \div 4

\* The "scan" object of a JSON configuration: the sensor_preset ("" when the
\* key is absent), the sections present, the level of its numbers, and
\* whether each section holds only its first key (h, range_sigma_m)
NumericFields ==
    {"fov_h", "fov_v", "resolution_h", "resolution_v", "range_max",
     "range_sigma_m", "dropout_prob"}

ScanDoc(preset, sections, level, partial) ==
    [preset |-> preset, sections |-> sections, level |-> level,
     partial |-> partial,
     values |-> [field \in NumericFields |-> JsonNumber(field, level)]]

SectionChoices ==
    {{}, {"fov_deg"}, {"noise"},
     {"fov_deg", "resolution_deg", "range_m", "noise"}}

\* Documents handed to LIDAR_OT_import_json ("SICK_LMS511" is no enum item)
JsonDocs ==
    {ScanDoc(p, sec, l, part) :
        p \in {"", "AUTO", "VELODYNE_VLP16", "SICK_LMS511"},
        sec \in SectionChoices, l \in JsonLevels, part \in BOOLEAN}

\* Configurations handed to _apply_llm_config
LlmDocs ==
    {ScanDoc(p, sec, l, part) :
        p \in {"", "AUTO", "Velodyne", "Generic32", "Ouster"},
        sec \in SectionChoices, l \in JsonLevels, part \in BOOLEAN}

\* The statements of LIDAR_OT_import_json.execute, one key of the "scan"
\* object each
import_sensor_preset(s, doc) ==
    IF doc.preset # "" THEN AssignPreset(s, doc.preset) ELSE s

import_origin(s, doc) ==
    IF "origin" \in doc.sections
    THEN [s EXCEPT !.origin = doc.values.origin]
    ELSE s

import_rotation_deg(s, doc) ==
    IF "rotation_deg" \in doc.sections
    THEN [s EXCEPT !.rotation_deg = doc.values.rotation_deg]
    ELSE s

import_fov_deg(s, doc) ==
    IF "fov_deg" \in doc.sections
    THEN SetAttr(SetAttr(s, "fov_h", doc.values.fov_h), "fov_v",
                 IF doc.partial THEN 30 * AnglePerDegree ELSE doc.values.fov_v)
    ELSE s

import_resolution_deg(s, doc) ==
    IF "resolution_deg" \in doc.sections
    THEN SetAttr(SetAttr(s, "resolution_h", doc.values.resolution_h),
                 "resolution_v",
                 IF doc.partial THEN AnglePerDegree
                 ELSE doc.values.resolution_v)
    ELSE s

import_range_m(s, doc) ==
    IF "range_m" \in doc.sections
    THEN SetAttr(s, "range_max", doc.values.range_max)
    ELSE s

import_noise(s, doc) ==
    IF "noise" \in doc.sections
    THEN SetAttr(SetAttr(s, "range_sigma_m", doc.values.range_sigma_m),
                 "dropout_prob",
                 IF doc.partial THEN 20 ELSE doc.values.dropout_prob)
    ELSE s

import_output(s, doc) ==
    IF "output" \in doc.sections
    THEN LET formats == {doc.values.formats[k] :
                           k \in DOMAIN doc.values.formats}
         IN  [s EXCEPT !.export_ply = "ply" \in formats,
                       !.export_csv = "csv" \in formats,
                       !.export_las = "las" \in formats,
                       !.export_pcd = "pcd" \in formats,
                       !.export_path = doc.values.path,
                       !.include_labels = doc.values.include_labels]
    ELSE s

\* LIDAR_OT_import_json.execute on a document that parsed, `if 'scan' in
\* config` taken; `raised` is the TypeError of an enum value that is no item
import_json(s, doc) ==
    IF doc.preset # "" /\ doc.preset \notin EnumItems
    THEN [settings |-> s, raised |-> TRUE]
    ELSE [settings |->
            import_output(
              import_noise(
                import_range_m(
                  import_resolution_deg(
                    import_fov_deg(
                      import_rotation_deg(
                        import_origin(import_sensor_preset(s, doc), doc),
                        doc),
                      doc),
                    doc),
                  doc),
                doc),
              doc),
          raised |-> FALSE]

\* _apply_llm_config, `if "scan" in config` taken: the numeric fields and the
\* preset
_apply_llm_config(s, doc) ==
    LET N(field) == doc.values[field]
        preset == IF doc.preset = "" THEN "AUTO" ELSE doc.preset
        s0 == IF preset \in {"AUTO", "Velodyne", "Generic32"}
              THEN AssignPreset(s, _map_sensor_preset(preset))
              ELSE s
        s1 == IF "fov_deg" \in doc.sections
              THEN SetAttr(SetAttr(s0, "fov_h",
                                   _clamp(N("fov_h"), FovMin, FovHMax)),
                           "fov_v",
                           _clamp(IF doc.partial THEN s0.fov_v ELSE N("fov_v"),
                                  FovMin, FovVMax))
              ELSE s0
        s2 == IF "resolution_deg" \in doc.sections
              THEN SetAttr(SetAttr(s1, "resolution_h",
                                   _clamp(N("resolution_h"), ResMin, ResMax)),
                           "resolution_v",
                           _clamp(IF doc.partial THEN s1.resolution_v
                                  ELSE N("resolution_v"), ResMin, ResMax))
              ELSE s1
        s3 == IF "range_m" \in doc.sections
              THEN SetAttr(s2, "range_max",
                           _clamp(N("range_max"), 100, RangeMaxMax))
              ELSE s2
    IN  IF "noise" \in doc.sections
        THEN SetAttr(SetAttr(s3, "range_sigma_m",
                             _clamp(N("range_sigma_m"), 0, SigmaMax)),
                     "dropout_prob",
                     _clamp(IF doc.partial THEN s3.dropout_prob
                            ELSE N("dropout_prob"), 0, DropoutMax))
        ELSE s3

\* Number of configuration operations applied so far
OpsApplied == IF config_log = <<>> THEN 0 ELSE config_log[1].n

\* What config_log records of the operation just applied
Applied(via, preset, doc, ok) ==
    <<[n |-> OpsApplied + 1, via |-> via, preset |-> preset, doc |-> doc,
       ok |-> ok]>>

NoDoc == ScanDoc("", {}, "inside", FALSE)

ConfigInit ==
    /\ op = "config"
    /\ pc = "start"
    /\ ret = "NONE"
    /\ reports = <<>>
    /\ settings = DefaultSettings
    /\ points = <<>>
    /\ rays = 0
    /\ directions = <<>>
    /\ casts = <<>>
    /\ config_log = <<>>
    /\ sweep = NoSweep
    /\ RestIdle

ConfigFrame ==
    /\ op = "config"
    /\ OpsApplied < MaxConfigOps
    /\ UNCHANGED <<op, pc, ret, reports, points, rays, directions, casts, sweep>>
    /\ UNCHANGED restvars

\* The user picks an item of the sensor_preset enum
SelectPreset ==
    /\ ConfigFrame
    /\ \E name \in EnumItems :
          /\ settings' = AssignPreset(settings, name)
          /\ config_log' = Applied("apply_preset", name, NoDoc, TRUE)

ApplyPresetToSettings ==
    /\ ConfigFrame
    /\ \E name \in CatalogNames \cup {"UNKNOWN"} :
          LET r == apply_preset_to_settings(settings, name)
          IN  /\ settings' = r.settings
              /\ config_log' = Applied("apply_preset_to_settings", name,
                                       NoDoc, r.result)

ImportJson ==
    /\ ConfigFrame
    /\ \E doc \in JsonDocs :
          LET r == import_json(settings, doc)
          IN  /\ settings' = r.settings
              /\ config_log' = Applied("import_json", doc.preset, doc,
                                       ~r.raised)

ApplyLlmConfig ==
    /\ ConfigFrame
    /\ \E doc \in LlmDocs :
          /\ settings' = _apply_llm_config(settings, doc)
          /\ config_log' = Applied("llm", doc.preset, doc, TRUE)

ConfigNext ==
    \/ SelectPreset
    \/ ApplyPresetToSettings
    \/ ImportJson
    \/ ApplyLlmConfig

ConfigSpec == ConfigInit /\ [][ConfigNext]_vars

\* ------------------------------------------- claims on the configuration
LastOp == config_log[1]

\* The last operation applied the named preset through one of the two
\* preset-application paths
PresetApplied(name) ==
    /\ op = "config"
    /\ config_log # <<>>
    /\ LastOp.via \in {"apply_preset", "apply_preset_to_settings"}
    /\ LastOp.preset = name
    /\ LastOp.ok

\* C19: after applying the preset "VELODYNE_VLP16", through the update
\* callback apply_preset or through apply_preset_to_settings, the
\* configuration reads fov_h = 360.0, fov_v = 30.0, resolution_h = 0.2,
\* resolution_v = 2.0, range_max = 100.0.
C19_VelodynePreset ==
    PresetApplied("VELODYNE_VLP16") =>
        /\ settings.fov_h = 360 * AnglePerDegree
        /\ settings.fov_v = 30 * AnglePerDegree
        /\ settings.resolution_h = AnglePerDegree \div 5
        /\ settings.resolution_v = 2 * AnglePerDegree
        /\ settings.range_max = 100 * MmPerMetre

\* The value v brought into [lo, hi]
Clamped(v, lo, hi) == IF v < lo THEN lo ELSE IF v > hi THEN hi ELSE v

\* C20: after any sequence of configuration operations (any catalog preset,
\* a JSON import, an LLM-produced configuration) the clamped fields are
\* within their bounds as soon as they are assigned: fov_h in [1, 360],
\* fov_v in [1, 90], both resolutions in [0.01, 5], range_max <= 500,
\* range_sigma_m in [0, 0.5], dropout_prob in [0, 0.3]; an out-of-range input
\* is clamped to the nearer bound, never rejected.
C20_ClampedAtAssignment ==
    op = "config" =>
        /\ settings.fov_h \in (1 * AnglePerDegree)..(360 * AnglePerDegree)
        /\ settings.fov_v \in (1 * AnglePerDegree)..(90 * AnglePerDegree)
        /\ settings.resolution_h \in (AnglePerDegree \div 100)..(5 * AnglePerDegree)
        /\ settings.resolution_v \in (AnglePerDegree \div 100)..(5 * AnglePerDegree)
        /\ settings.range_max <= 500 * MmPerMetre
        /\ settings.range_sigma_m \in 0..(MmPerMetre \div 2)
        /\ settings.dropout_prob \in 0..((3 * PerMille) \div 10)
        /\ (config_log # <<>> /\ LastOp.via \in {"import_json", "llm"}
                /\ LastOp.preset \in {"", "AUTO", "VELODYNE_VLP16", "Velodyne",
                                      "Generic32", "Ouster"}) =>
              LET doc == LastOp.doc
                  In(field) == JsonNumber(field, doc.level)
              IN  /\ LastOp.ok
                  /\ "fov_deg" \in doc.sections =>
                        settings.fov_h = Clamped(In("fov_h"), 1 * AnglePerDegree,
                                                 360 * AnglePerDegree)
                  /\ ("fov_deg" \in doc.sections /\ ~doc.partial) =>
                        settings.fov_v = Clamped(In("fov_v"), 1 * AnglePerDegree,
                                                 90 * AnglePerDegree)
                  /\ "resolution_deg" \in doc.sections =>
                        settings.resolution_h
                            = Clamped(In("resolution_h"), AnglePerDegree \div 100,
                                      5 * AnglePerDegree)
                  /\ "range_m" \in doc.sections =>
                        settings.range_max
                            = Clamped(In("range_max"), MmPerMetre \div 10,
                                      500 * MmPerMetre)
                  /\ "noise" \in doc.sections =>
                        settings.range_sigma_m
                            = Clamped(In("range_sigma_m"), 0, MmPerMetre \div 2)
                  /\ ("noise" \in doc.sections /\ ~doc.partial) =>
                        settings.dropout_prob
                            = Clamped(In("dropout_prob"), 0, (3 * PerMille) \div 10)
        /\ (config_log # <<>> /\ LastOp.via = "apply_preset_to_settings"
                /\ LastOp.preset \in CatalogNames) => LastOp.ok

\* A JSON import whose numbers all lie above the limits, after the 2D scanner
\* of the catalog (fov_v = 0, resolution_v = 0) was applied
C20_Witness ==
    /\ op = "config"
    /\ config_log # <<>>
    /\ LastOp.n = 2
    /\ LastOp.via = "import_json"
    /\ LastOp.doc.level = "above"
    /\ LastOp.doc.sections = {"fov_deg"}
    /\ ~LastOp.doc.partial
    /\ settings.fov_h = FovHMax
    /\ settings.fov_v = FovVMax
    /\ settings.resolution_v = ResMin
    /\ settings.range_max = 80 * MmPerMetre

\* ====================================================== repeated sweeps
\* One scanner object swept several times (the animation operator calls
\* scanner.scan() once per frame) while the settings object it refers to can
\* be written between two rays.
MaxSweeps == 2              \* sweeps of one scanner object
MaxEdits == 1               \* writes to the settings during one sweep

\* The settings of a sweep, with the multi-return fields
SweepSettings(rmax, noise, weather, multi, max_returns) ==
    [fov_h |-> ResMax, fov_v |-> FovMin,
     resolution_h |-> ResMax, resolution_v |-> ResMax,
     range_min |-> MmPerMetre, range_max |-> rmax,
     enable_noise |-> noise, noise_type |-> "UNIFORM", range_sigma_m |-> 500,
     dropout_prob |-> 300,
     enable_weather |-> weather, rain_rate |-> 100, fog_density |-> 100,
     enable_intensity |-> FALSE, intensity_falloff |-> "NONE",
     enable_multi_return |-> multi, max_returns |-> max_returns]

\* enable_multi_return with max_returns (min=1, default=2)
MultiReturnChoices == {<<FALSE, 2>>, <<TRUE, 1>>, <<TRUE, 2>>}

\* The values another party can write into the settings object
Edits(s) ==
    ({[s EXCEPT !.range_max = r] : r \in RangeChoices}
        \cup {[s EXCEPT !.enable_noise = ~s.enable_noise]}
        \cup {[s EXCEPT !.enable_weather = ~s.enable_weather]}
        \cup {[s EXCEPT !.fov_h = FovMin]}) \ {s}

SweepInit ==
    /\ op = "sweep"
    /\ pc = "start"
    /\ ret = "NONE"
    /\ reports = <<>>
    /\ \E rmax \in RangeChoices, noise \in BOOLEAN, m \in MultiReturnChoices :
          settings = SweepSettings(rmax, noise, FALSE, m[1], m[2])
    /\ points = <<>>
    /\ rays = 0
    /\ directions = <<>>
    /\ casts = <<>>
    /\ config_log = <<>>
    /\ sweep = NoSweep
    /\ RestIdle

\* A write to a field of the settings object between two rays: the scanner
\* holds a reference to the object (self.settings = settings) and the loop
\* hands control to progress_callback
MutateSettings ==
    /\ op = "sweep"
    /\ pc = "cast"
    /\ sweep.edits < MaxEdits
    /\ \E e \in Edits(settings) : settings' = e
    /\ sweep' = [sweep EXCEPT !.edits = @ + 1]
    /\ UNCHANGED <<op, pc, ret, reports, points, rays, directions, casts,
                   config_log>>
    /\ UNCHANGED restvars

\* The caller invokes scanner.scan() again on the same scanner object
SweepAgain ==
    /\ op = "sweep"
    /\ pc = "done"
    /\ sweep.n < MaxSweeps
    /\ pc' = "start"
    /\ ret' = "NONE"
    /\ UNCHANGED <<op, reports, settings, points, rays, directions, casts,
                   config_log, sweep>>
    /\ UNCHANGED restvars

SweepNext ==
    \/ SweepStart
    \/ CastRay
    \/ SweepReturn
    \/ MutateSettings
    \/ SweepAgain

SweepSpec == SweepInit /\ [][SweepNext]_vars

\* ------------------------------------------------- claims on the sweeps
\* A sweep of the scanner has started and is casting or has returned
InSweep == op = "sweep" /\ pc \in {"cast", "done"}

\* What cast_ray returned for ray i
Outcome(i) ==
    IF casts[i].at = "return"
    THEN CHOOSE p \in PointsOf(i) : TRUE
    ELSE None

\* The ray_cast results that read as casts[i]
HitsOf(i) ==
    {h \in HitChoices :
        h.result = casts[i].result /\ h.distance = casts[i].distance}

\* C21: a sweep uses the configuration as it was at sweep start: when another
\* party writes range limits, noise, dropout, weather, FOV or resolution
\* between two rays, every ray of the sweep, the later ones included, is
\* still measured with the values read at sweep start.
C21_SnapshotAtSweepStart ==
    InSweep =>
        /\ directions = generate_ray_directions(sweep.settings).directions
        /\ \A i \in DOMAIN casts :
              \E h \in HitsOf(i) :
                  Step(Outcome(i), casts[i].at, casts[i].intensity)
                      \in cast_ray_steps(sweep.settings, i, h)

\* ================================================= encoders' file content
\* Numbers of a point count 1/1024: every value is a binary fraction, so the
\* decimal formatting and the 32-bit packing can be computed exactly.
MaxCodecPoints == 2         \* longest point list handed to an encoder
UnitsPerOne == 1024

\* 10 ^ digits
RECURSIVE Pow10(_)
Pow10(digits) == IF digits = 0 THEN 1 ELSE 10 * Pow10(digits - 1)

\* q + r / d rounded to the nearest integer, ties to the even one
RoundHalfEven(q, r, d) ==
    IF 2 * r > d \/ (2 * r = d /\ q % 2 = 1) THEN q + 1 ELSE q

\* f"{v:.6f}" and f"{v:.4f}": sign, integer part, `digits` decimals
Fixed(v, digits) ==
    LET a == Abs(v)
        scaled == (a % UnitsPerOne) * Pow10(digits)
        frac == RoundHalfEven(scaled \div UnitsPerOne, scaled % UnitsPerOne,
                              UnitsPerOne)
    IN  [neg |-> v < 0,
         int |-> (a \div UnitsPerOne) + (frac \div Pow10(digits)),
         frac |-> frac % Pow10(digits),
         digits |-> digits]

\* struct.pack('<f', v): four bytes holding v rounded to 24 significant bits
Pack(v) ==
    LET a == Abs(v)
        ulp == IF a < 16777216 THEN 1 ELSE IF a < 33554432 THEN 2 ELSE 4
        m == RoundHalfEven(a \div ulp, a % ulp, ulp) * ulp
    IN  [size |-> 4, value |-> IF v < 0 THEN -m ELSE m]

\* Two points an export can be handed
CodecPoints ==
    {[position |-> <<1024, -512, 3>>, normal |-> <<0, 0, 1024>>,
      intensity |-> 512, distance |-> 1145, object_name |-> "Cube",
      category_id |-> "car", return_number |-> 1, angle_h |-> -2560,
      angle_v |-> 0],
     [position |-> <<16777217, 1, -1>>, normal |-> <<0, -1024, 0>>,
      intensity |-> 1, distance |-> 700, object_name |-> "a,b",
      category_id |-> "", return_number |-> 1, angle_h |-> 2560,
      angle_v |-> 5]}

Prop(type, name) == [type |-> type, name |-> name]

\* The property lines export_ply writes
ply_properties(include_normals, include_intensity, include_labels) ==
    <<Prop("float", "x"), Prop("float", "y"), Prop("float", "z")>>
    \o (IF include_normals
        THEN <<Prop("float", "nx"), Prop("float", "ny"), Prop("float", "nz")>>
        ELSE <<>>)
    \o (IF include_intensity
        THEN <<Prop("float", "intensity"), Prop("float", "distance")>>
        ELSE <<>>)
    \o (IF include_labels
        THEN <<Prop("uchar", "red"), Prop("uchar", "green"),
               Prop("uchar", "blue")>>
        ELSE <<>>)

\* The vertex line export_ply writes for one point, token by token
ply_line(point, include_normals, include_intensity, include_labels) ==
    <<Fixed(point.position[1], 6), Fixed(point.position[2], 6),
      Fixed(point.position[3], 6)>>
    \o (IF include_normals
        THEN <<Fixed(point.normal[1], 6), Fixed(point.normal[2], 6),
               Fixed(point.normal[3], 6)>>
        ELSE <<>>)
    \o (IF include_intensity
        THEN <<Fixed(point.intensity, 6), Fixed(point.distance, 6)>>
        ELSE <<>>)
    \o (IF include_labels
        THEN LET gray == (point.intensity * 255) \div UnitsPerOne
             IN  <<gray, gray, gray>>
        ELSE <<>>)

\* What export_ply leaves in the file
ply_content(pts, include_normals, include_intensity, include_labels) ==
    [format |-> "ascii", count |-> Len(pts),
     properties |-> ply_properties(include_normals, include_intensity,
                                   include_labels),
     records |-> [k \in DOMAIN pts |->
                    ply_line(pts[k], include_normals, include_intensity,
                             include_labels)]]

\* The property lines export_ply_binary writes
ply_binary_properties(include_normals, include_intensity) ==
    <<Prop("float", "x"), Prop("float", "y"), Prop("float", "z")>>
    \o (IF include_normals
        THEN <<Prop("float", "nx"), Prop("float", "ny"), Prop("float", "nz")>>
        ELSE <<>>)
    \o (IF include_intensity THEN <<Prop("float", "intensity")>> ELSE <<>>)

\* The bytes export_ply_binary writes for one point, float by float
ply_binary_record(point, include_normals, include_intensity) ==
    <<Pack(point.position[1]), Pack(point.position[2]),
      Pack(point.position[3])>>
    \o (IF include_normals
        THEN <<Pack(point.normal[1]), Pack(point.normal[2]),
               Pack(point.normal[3])>>
        ELSE <<>>)
    \o (IF include_intensity THEN <<Pack(point.intensity)>> ELSE <<>>)

\* What export_ply_binary leaves in the file
ply_binary_content(pts, include_normals, include_intensity) ==
    [format |-> "binary_little_endian", count |-> Len(pts),
     properties |-> ply_binary_properties(include_normals, include_intensity),
     records |-> [k \in DOMAIN pts |->
                    ply_binary_record(pts[k], include_normals,
                                      include_intensity)]]

\* columns of export_csv
csv_columns_Conditional(include_normals, include_intensity, include_labels) ==
    <<"x", "y", "z">>
    \o (IF include_normals THEN <<"nx", "ny", "nz">> ELSE <<>>)
    \o (IF include_intensity THEN <<"intensity", "distance">> ELSE <<>>)
    \o (IF include_labels
        THEN <<"object_name", "category_id", "angle_h", "angle_v",
               "return_number">>
        ELSE <<>>)

csv_columns(include_normals, include_intensity, include_labels) ==
    <<"x", "y", "z">>
    \o (IF include_normals THEN <<"nx", "ny", "nz">> ELSE <<>>)
    \o (IF include_intensity THEN <<"intensity", "distance">> ELSE <<>>)
    \o (IF include_labels THEN <<"object_name", "category_id">> ELSE <<>>)
    \o <<"angle_h", "angle_v", "return_number">>

\* The dictionary export_csv builds for one point
csv_row(point, include_normals, include_intensity, include_labels) ==
    [x |-> Fixed(point.position[1], 6), y |-> Fixed(point.position[2], 6),
     z |-> Fixed(point.position[3], 6)]
    @@ (IF include_normals
        THEN [nx |-> Fixed(point.normal[1], 6), ny |-> Fixed(point.normal[2], 6),
              nz |-> Fixed(point.normal[3], 6)]
        ELSE EmptyMap)
    @@ (IF include_intensity
        THEN [intensity |-> Fixed(point.intensity, 6),
              distance |-> Fixed(point.distance, 6)]
        ELSE EmptyMap)
    @@ (IF include_labels
        THEN [object_name |-> point.object_name,
              category_id |-> point.category_id]
        ELSE EmptyMap)
    @@ [angle_h |-> Fixed(point.angle_h, 4), angle_v |-> Fixed(point.angle_v, 4),
        return_number |-> point.return_number]

\* csv.DictWriter(f, fieldnames).writerow(row): a key that is no field name
\* raises ValueError, a missing key is written as the empty string; the
\* writer quotes a field that holds the delimiter, so one value is one field
DictWriter_writerow(fieldnames, row) ==
    IF \E key \in DOMAIN row : \A k \in DOMAIN fieldnames : fieldnames[k] # key
    THEN [raised |-> TRUE, fields |-> <<>>]
    ELSE [raised |-> FALSE,
          fields |-> [k \in DOMAIN fieldnames |->
                        IF fieldnames[k] \in DOMAIN row
                        THEN row[fieldnames[k]] ELSE ""]]

\* The prefix of rows written before the first writerow that raises
RECURSIVE WrittenRows(_)
WrittenRows(rows) ==
    IF rows = <<>> \/ Head(rows).raised
    THEN <<>>
    ELSE <<Head(rows).fields>> \o WrittenRows(Tail(rows))

\* What export_csv leaves in the file, and what it returns
csv_content(pts, include_normals, include_intensity, include_labels) ==
    LET columns == csv_columns(include_normals, include_intensity,
                               include_labels)
        rows == [k \in DOMAIN pts |->
                   DictWriter_writerow(
                       columns,
                       csv_row(pts[k], include_normals, include_intensity,
                               include_labels))]
    IN  [ok |-> \A k \in DOMAIN rows : ~rows[k].raised,
         header |-> columns,
         rows |-> WrittenRows(rows)]

\* The include flags of the settings
CodecSettings(include_normals, include_intensity, include_labels) ==
    [include_normals |-> include_normals,
     include_intensity |-> include_intensity,
     include_labels |-> include_labels]

RECURSIVE SeqsUpTo(_, _)
SeqsUpTo(S, n) ==
    IF n = 0 THEN {<<>>}
    ELSE LET shorter == SeqsUpTo(S, n - 1)
         IN  shorter \cup {Append(q, x) : q \in shorter, x \in S}

codecrest ==
    <<laspy_installed, frame_current, entry_frame, original_frame, frame,
      all_points, visited, failed_frames, scanned, frame_points, meshes, exp,
      exports, las_cause, faults>>

CodecInit ==
    /\ op = "encode"
    /\ pc = "start"
    /\ ret = "NONE"
    /\ reports = <<>>
    /\ \E n \in BOOLEAN, i \in BOOLEAN, l \in BOOLEAN :
          settings = CodecSettings(n, i, l)
    /\ points \in SeqsUpTo(CodecPoints, MaxCodecPoints)
    /\ rays = 0
    /\ directions = <<>>
    /\ casts = <<>>
    /\ config_log = <<>>
    /\ sweep = NoSweep
    /\ RestIdle

CodecFrame ==
    /\ op = "encode"
    /\ UNCHANGED <<op, pc, ret, reports, settings, points, rays>>
    /\ UNCHANGED sensing
    /\ UNCHANGED codecrest

EncodePly ==
    /\ CodecFrame
    /\ "ply" \notin DOMAIN files
    /\ files' = Put(files, "ply",
                    ply_content(points, settings.include_normals,
                                settings.include_intensity,
                                settings.include_labels))

EncodePlyBinary ==
    /\ CodecFrame
    /\ "ply_binary" \notin DOMAIN files
    /\ files' = Put(files, "ply_binary",
                    ply_binary_content(points, settings.include_normals,
                                       settings.include_intensity))

EncodeCsv ==
    /\ CodecFrame
    /\ "csv" \notin DOMAIN files
    /\ files' = Put(files, "csv",
                    csv_content(points, settings.include_normals,
                                settings.include_intensity,
                                settings.include_labels))

CodecNext ==
    \/ EncodePly
    \/ EncodePlyBinary
    \/ EncodeCsv

CodecSpec == CodecInit /\ [][CodecNext]_vars

\* ------------------------------------------------- claims on the encoders
\* Position of a column in the header (0 when absent)
ColumnAt(header, name) ==
    IF \E k \in DOMAIN header : header[k] = name
    THEN CHOOSE k \in DOMAIN header : header[k] = name
    ELSE 0

\* The text the CSV holds for a column of a point
CsvValue(point, name) ==
    CASE name = "x" -> Fixed(point.position[1], 6)
      [] name = "y" -> Fixed(point.position[2], 6)
      [] name = "z" -> Fixed(point.position[3], 6)
      [] name = "nx" -> Fixed(point.normal[1], 6)
      [] name = "ny" -> Fixed(point.normal[2], 6)
      [] name = "nz" -> Fixed(point.normal[3], 6)
      [] name = "intensity" -> Fixed(point.intensity, 6)
      [] name = "distance" -> Fixed(point.distance, 6)
      [] name = "object_name" -> point.object_name
      [] name = "category_id" -> point.category_id
      [] name = "angle_h" -> Fixed(point.angle_h, 4)
      [] name = "angle_v" -> Fixed(point.angle_v, 4)
      [] OTHER -> point.return_number

\* C22: the CSV header always ends with angle_h, angle_v, return_number, for
\* each of the eight combinations of the include flags, and every data row
\* has exactly as many fields as the header, in the order
\* x,y,z[,nx,ny,nz][,intensity,distance][,object_name,category_id],
\* angle_h,angle_v,return_number.
C22_CsvColumns ==
    (op = "encode" /\ "csv" \in DOMAIN files) =>
        LET csv == files["csv"]
            n == Len(csv.header)
        IN  /\ csv.ok
            /\ n >= 6
            /\ SubSeq(csv.header, n - 2, n)
                   = <<"angle_h", "angle_v", "return_number">>
            /\ SubSeq(csv.header, 1, 3) = <<"x", "y", "z">>
            /\ n = 6 + (IF settings.include_normals THEN 3 ELSE 0)
                     + (IF settings.include_intensity THEN 2 ELSE 0)
                     + (IF settings.include_labels THEN 2 ELSE 0)
            /\ settings.include_normals =>
                  SubSeq(csv.header, 4, 6) = <<"nx", "ny", "nz">>
            /\ settings.include_intensity =>
                  /\ ColumnAt(csv.header, "intensity")
                        = IF settings.include_normals THEN 7 ELSE 4
                  /\ ColumnAt(csv.header, "distance")
                        = ColumnAt(csv.header, "intensity") + 1
            /\ settings.include_labels =>
                  SubSeq(csv.header, n - 4, n - 3)
                      = <<"object_name", "category_id">>
            /\ Len(csv.rows) = Len(points)
            /\ \A k \in DOMAIN csv.rows :
                  /\ Len(csv.rows[k]) = n
                  /\ \A c \in 1..n :
                        csv.rows[k][c] = CsvValue(points[k], csv.header[c])

\* Two points written with normals and intensity but without labels: eleven
\* columns and the three trailing ones present
C22_Witness ==
    /\ op = "encode"
    /\ "csv" \in DOMAIN files
    /\ settings = CodecSettings(TRUE, TRUE, FALSE)
    /\ Len(points) = 2
    /\ Len(files["csv"].rows) = 2
    /\ Len(files["csv"].header) = 11
    /\ files["csv"].rows[1][11] = 1

\* C23: the binary PLY encoder emits the property set of the ASCII encoder
\* minus the color properties, for every combination of include flags: its
\* header declares x y z [nx ny nz] [intensity distance], and each vertex
\* record holds exactly one 32-bit float per declared property, in header
\* order.
C23_BinaryPlyProperties ==
    (op = "encode" /\ "ply_binary" \in DOMAIN files) =>
        LET bin == files["ply_binary"]
        IN  /\ bin.properties
                  = ply_properties(settings.include_normals,
                                   settings.include_intensity, FALSE)
            /\ bin.count = Len(points)
            /\ \A k \in DOMAIN bin.records :
                  /\ Len(bin.records[k]) = Len(bin.properties)
                  /\ \A c \in DOMAIN bin.records[k] :
                        bin.records[k][c].size = 4

\* ------------------------------------------ claims on the sweep's course
\* The rays of the sweep in progress that returned a point
ReturnedRays == {i \in DOMAIN casts : casts[i].at = "return"}

\* C24: a sweep resolves the scanner pose once and generates the direction
\* set once, then calls the intersection service exactly once per generated
\* direction, in generation order; the point list is a subsequence of the ray
\* sequence (ray order kept, at most one point per ray) and is reset at the
\* start of every sweep, so it holds no point of an earlier sweep.
C24_SweepCourse ==
    InSweep =>
        /\ sweep.pose = 1
        /\ sweep.generated = 1
        /\ directions = generate_ray_directions(sweep.settings).directions
        /\ Len(casts) = rays
        /\ rays <= Len(directions)
        /\ pc = "done" => rays = Len(directions)
        /\ \A i \in DOMAIN casts : casts[i].ray = i
        /\ \A k \in DOMAIN points :
              /\ points[k].ray \in ReturnedRays
              /\ \A j \in DOMAIN points :
                    j < k => points[j].ray < points[k].ray
        /\ Len(points) = Cardinality(ReturnedRays)
        /\ rays = 0 => points = <<>>

\* The second sweep of a scanner is over: both rays were cast and only the
\* second returned a point
C24_Witness ==
    /\ InSweep
    /\ pc = "done"
    /\ sweep.n = 2
    /\ Len(casts) = 2
    /\ casts[1].at = "dropout"
    /\ Len(points) = 1
    /\ points[1].ray = 2

\* Positions in the point list of the points ray i produced
ReturnsOf(i) == {k \in DOMAIN points : points[k].ray = i}

C25_PositionMatchesDistance ==
    Sweeping => \A k \in DOMAIN points : points[k].range = points[k].distance

\* Fog is in effect
FogOn == settings.enable_weather /\ settings.fog_density > 0

Threshold == Frac(5, 100)

\* C26: with weather enabled and fog_density > 0 a point whose intensity
\* after rain and fog attenuation is below 0.05 is discarded and one whose
\* attenuated intensity is at least 0.05 is kept, whatever the noise toggle
\* and the dropout trial; with weather disabled or fog_density = 0 weather
\* never discards a point.
C26_WeatherSuppression ==
    Sweeping =>
        \A i \in DOMAIN casts :
            /\ casts[i].at = "weather" =>
                  /\ FogOn
                  /\ FLess(casts[i].intensity, Threshold)
                  /\ PointsOf(i) = {}
            /\ (casts[i].at = "return" /\ FogOn) =>
                  /\ ~FLess(casts[i].intensity, Threshold)
                  /\ \E p \in PointsOf(i) : p.intensity = casts[i].intensity
            /\ ~FogOn => casts[i].at # "weather"
            /\ (Accepted(i) /\ casts[i].at # "dropout") =>
                  casts[i].at \in {"weather", "return"}
            /\ casts[i].at = "dropout" =>
                  settings.enable_noise /\ settings.dropout_prob > 0

\* Noise disabled, fog on: the first ray was suppressed by the weather, the
\* second kept with an attenuated intensity
C26_Witness ==
    /\ Sweeping
    /\ ~settings.enable_noise
    /\ FogOn
    /\ rays = 2
    /\ casts[1].at = "weather"
    /\ casts[2].at = "return"
    /\ FLess(casts[2].intensity, One)
    /\ Len(points) = 1

Rejections == {"ray_cast", "range", "dropout", "weather"}

\* C28: every way the measurement of one ray can reject it (no hit, hit out
\* of range, dropout, weather suppression) ends with "no point produced" as a
\* normal result: the sweep raises no error, goes on with the next ray, and
\* the rejected ray leaves the point list unchanged.
C28_RejectionIsNormal ==
    Sweeping =>
        /\ ret # "EXCEPTION"
        /\ Len(casts) = rays
        /\ pc = "cast" => ret = "NONE"
        /\ pc = "done" => (ret = "RETURNED" /\ rays = Len(directions))
        /\ \A i \in DOMAIN casts :
              /\ casts[i].at \in Rejections \cup {"return"}
              /\ casts[i].at \in Rejections <=> PointsOf(i) = {}
              /\ ~casts[i].result => casts[i].at = "ray_cast"
              /\ (casts[i].result /\ ~Accepted(i)) => casts[i].at = "range"
        /\ Len(points) = Cardinality({i \in DOMAIN casts : casts[i].at = "return"})

\* The first ray was suppressed by the weather and the sweep went on: the
\* second ray returned a point and scan returned
C28_Witness ==
    /\ Sweeping
    /\ pc = "done"
    /\ ret = "RETURNED"
    /\ settings.enable_noise
    /\ casts[1].at \in {"weather", "dropout"}
    /\ casts[2].at = "return"
    /\ Len(points) = 1

\* C30: the reported distance of every emitted point is non-negative and lies
\* within [range_min, range_max], under every noise distribution and weather
\* setting.
C30_DistanceWithinRange ==
    Sweeping =>
        \A k \in DOMAIN points :
            /\ points[k].distance >= 0
            /\ settings.range_min <= points[k].distance
            /\ points[k].distance <= settings.range_max

\* C30 as amended: the reported distance of every emitted point is
\* non-negative under every noise distribution and weather setting, and the
\* true hit distance of its ray lies within [range_min, range_max]; the
\* reported distance itself lies within [range_min, range_max] when noise is
\* disabled and no rain is in effect.
C30_DistanceNonNegative ==
    Sweeping =>
        \A k \in DOMAIN points :
            /\ points[k].distance >= 0
            /\ Accepted(points[k].ray)
            /\ (~settings.enable_noise
                    /\ (~settings.enable_weather \/ settings.rain_rate = 0)) =>
                  /\ settings.range_min <= points[k].distance
                  /\ points[k].distance <= settings.range_max

\* Gaussian noise pulled a hit at range_min down to the floor 0, and another
\* point lies beyond range_max
C30_Witness ==
    /\ Sweeping
    /\ settings.enable_noise
    /\ settings.noise_type = "GAUSSIAN"
    /\ Len(points) = 2
    /\ points[1].distance = 0
    /\ casts[1].distance = settings.range_min
    /\ points[2].distance > settings.range_max

\* ================================== scan configuration written and read
\* max(lo, min(hi, value)) as generate_scan_json writes it
Bounded(value, lo, hi) ==
    LET m == IF hi < value THEN hi ELSE value
    IN  IF lo > m THEN lo ELSE m

\* The formats list LIDAR_OT_export_json.execute appends to
FormatList(s) ==
    (IF s.export_ply THEN <<"ply">> ELSE <<>>)
    \o (IF s.export_csv THEN <<"csv">> ELSE <<>>)
    \o (IF s.export_las THEN <<"las">> ELSE <<>>)
    \o (IF s.export_pcd THEN <<"pcd">> ELSE <<>>)

\* scan_config of LIDAR_OT_export_json.execute
scan_config_RangeMin(s) ==
    [sensor_preset |-> s.sensor_preset, origin |-> s.origin,
     rotation_deg |-> s.rotation_deg, fov_h |-> s.fov_h, fov_v |-> s.fov_v,
     resolution_h |-> s.resolution_h, resolution_v |-> s.resolution_v,
     range_m |-> s.range_min, range_sigma_m |-> s.range_sigma_m,
     dropout_prob |-> s.dropout_prob, formats |-> FormatList(s),
     path |-> s.export_path, include_labels |-> s.include_labels]

scan_config(s) ==
    [sensor_preset |-> s.sensor_preset, origin |-> s.origin,
     rotation_deg |-> s.rotation_deg, fov_h |-> s.fov_h, fov_v |-> s.fov_v,
     resolution_h |-> s.resolution_h, resolution_v |-> s.resolution_v,
     range_m |-> s.range_max, range_sigma_m |-> s.range_sigma_m,
     dropout_prob |-> s.dropout_prob, formats |-> FormatList(s),
     path |-> s.export_path, include_labels |-> s.include_labels]

\* generate_scan_json(None, scan_config): result['scan']
generate_scan_json(cfg) ==
    [preset |-> cfg.sensor_preset,
     sections |-> {"origin", "rotation_deg", "fov_deg", "resolution_deg",
                   "range_m", "noise", "output"},
     level |-> "exported",
     partial |-> FALSE,
     values |->
        [fov_h |-> Bounded(cfg.fov_h, 1 * AnglePerDegree, 360 * AnglePerDegree),
         fov_v |-> Bounded(cfg.fov_v, 1 * AnglePerDegree, 90 * AnglePerDegree),
         resolution_h |-> Bounded(cfg.resolution_h, AnglePerDegree \div 100,
                                  5 * AnglePerDegree),
         resolution_v |-> Bounded(cfg.resolution_v, AnglePerDegree \div 100,
                                  5 * AnglePerDegree),
         range_max |-> Bounded(cfg.range_m, MmPerMetre \div 10,
                               500 * MmPerMetre),
         range_sigma_m |-> Bounded(cfg.range_sigma_m, 0, MmPerMetre \div 2),
         dropout_prob |-> Bounded(cfg.dropout_prob, 0, (3 * PerMille) \div 10),
         origin |-> cfg.origin,
         rotation_deg |-> cfg.rotation_deg,
         formats |-> cfg.formats,
         path |-> cfg.path,
         include_labels |-> cfg.include_labels]]

\* What LIDAR_OT_export_json.execute dumps into the file
export_json(s) == generate_scan_json(scan_config(s))

\* The user edits the pose and the output fields in the panel
PanelEdit(s) ==
    [s EXCEPT !.origin = <<0, 0, 0>>, !.rotation_deg = <<0, 0, 0>>,
              !.export_ply = ~@, !.export_csv = ~@, !.export_las = ~@,
              !.export_pcd = ~@, !.export_path = "//tmp/",
              !.include_labels = ~@]

\* Configurations a session can be in: a preset was picked, some numbers
\* were overridden afterwards, pose and output fields were set
RoundTripSettings ==
    {[import_json(AssignPreset(DefaultSettings, p),
                  ScanDoc("", sec, "inside", FALSE)).settings
        EXCEPT !.origin = o[1], !.rotation_deg = o[2], !.export_path = o[3],
               !.export_ply = f[1], !.export_csv = f[2], !.export_las = f[3],
               !.export_pcd = f[3], !.include_labels = f[4]] :
        p \in {"AUTO", "VELODYNE_VLP16", "GENERIC_64"},
        sec \in SectionChoices,
        o \in {<<<<0, 0, 1800>>, <<0, 0, 0>>, "//scans/">>,
               <<<<1000, -2000, 500>>, <<0, 90000, -180000>>, "//out/">>},
        f \in {<<TRUE, FALSE, FALSE, TRUE>>, <<FALSE, FALSE, FALSE, FALSE>>,
               <<FALSE, TRUE, TRUE, FALSE>>, <<TRUE, TRUE, TRUE, TRUE>>}}

RoundTripInit ==
    /\ op = "config"
    /\ pc = "start"
    /\ ret = "NONE"
    /\ reports = <<>>
    /\ settings \in RoundTripSettings
    /\ points = <<>>
    /\ rays = 0
    /\ directions = <<>>
    /\ casts = <<>>
    /\ config_log = <<>>
    /\ sweep = NoSweep
    /\ RestIdle

\* The file operators leave everything but the settings, the file and the
\* log alone
FileFrame ==
    /\ op = "config"
    /\ UNCHANGED <<op, pc, ret, reports, points, rays, directions, casts, sweep>>
    /\ UNCHANGED codecrest

\* LIDAR_OT_export_json.execute
ExportJson ==
    /\ FileFrame
    /\ "json" \notin DOMAIN files
    /\ files' = Put(files, "json", export_json(settings))
    /\ config_log' = <<[n |-> OpsApplied, via |-> "export_json",
                        preset |-> settings.sensor_preset, doc |-> NoDoc,
                        ok |-> TRUE, changed |-> FALSE]>>
    /\ UNCHANGED settings

\* An edit in the panel between the export and the import
EditPanel ==
    /\ ConfigFrame
    /\ settings' = PanelEdit(settings)
    /\ config_log' = Applied("panel", settings.sensor_preset, NoDoc, TRUE)

\* LIDAR_OT_import_json.execute on the file LIDAR_OT_export_json wrote
ImportJsonFile ==
    /\ FileFrame
    /\ "json" \in DOMAIN files
    /\ LET r == import_json(settings, files["json"])
       IN  /\ settings' = r.settings
           /\ config_log' = <<[n |-> OpsApplied, via |-> "import_file",
                               preset |-> files["json"].preset,
                               doc |-> NoDoc, ok |-> ~r.raised,
                               changed |-> r.settings # settings]>>
    /\ UNCHANGED files

RoundTripNext ==
    \/ ExportJson
    \/ SelectPreset
    \/ EditPanel
    \/ ImportJsonFile

RoundTripSpec == RoundTripInit /\ [][RoundTripNext]_vars

\* ----------------------------------------------- claim on the round trip
\* The fields of the scan section agree with the configuration
SameAsDocument(s, doc) ==
    /\ doc.preset = s.sensor_preset
    /\ doc.values.origin = s.origin
    /\ doc.values.rotation_deg = s.rotation_deg
    /\ doc.values.fov_h = s.fov_h
    /\ doc.values.fov_v = s.fov_v
    /\ doc.values.resolution_h = s.resolution_h
    /\ doc.values.resolution_v = s.resolution_v
    /\ doc.values.range_max = s.range_max
    /\ doc.values.range_sigma_m = s.range_sigma_m
    /\ doc.values.dropout_prob = s.dropout_prob
    /\ ("ply" \in {doc.values.formats[k] : k \in DOMAIN doc.values.formats})
          = s.export_ply
    /\ ("csv" \in {doc.values.formats[k] : k \in DOMAIN doc.values.formats})
          = s.export_csv
    /\ ("las" \in {doc.values.formats[k] : k \in DOMAIN doc.values.formats})
          = s.export_las
    /\ ("pcd" \in {doc.values.formats[k] : k \in DOMAIN doc.values.formats})
          = s.export_pcd
    /\ doc.values.path = s.export_path
    /\ doc.values.include_labels = s.include_labels

\* C29: exporting a configuration whose clamped fields are within bounds to
\* JSON and importing that document leaves sensor_preset, origin,
\* rotation_deg, fov_h, fov_v, resolution_h, resolution_v, range_max,
\* range_sigma_m, dropout_prob, the four format toggles, export_path and
\* include_labels equal to their values before the export, even though the
\* import of sensor_preset first re-applies the preset's own values: the
\* document holds the values of the configuration it was exported from, and
\* after the import the configuration holds the values of the document.
C29_JsonRoundTrip ==
    (op = "config" /\ config_log # <<>>) =>
        /\ LastOp.via = "export_json" =>
              /\ "json" \in DOMAIN files
              /\ SameAsDocument(settings, files["json"])
        /\ LastOp.via = "import_file" =>
              /\ LastOp.ok
              /\ SameAsDocument(settings, files["json"])

\* The imported file brought back a configuration that had been changed
\* since the export: the VLP-16 preset with a horizontal resolution that is
\* not the preset's own
C29_Witness ==
    /\ op = "config"
    /\ config_log # <<>>
    /\ LastOp.via = "import_file"
    /\ LastOp.changed
    /\ settings.sensor_preset = "VELODYNE_VLP16"
    /\ settings.resolution_h # presets["VELODYNE_VLP16"].resolution_h
    /\ settings.export_csv
    /\ settings.origin = <<1000, -2000, 500>>

====
